---- MODULE Spec2Model ----
(***************************************************************************)
(* Telemetry simulation and broadcast engine of ThermaMind (codeRedAstra). *)
(*                                                                         *)
(*   stateMachine.js  - the load-spike state machine (SpecSM, SpecCopy,    *)
(*                      SpecSMFair with a fair tick)                       *)
(*   simulator.js     - synthesis of a snapshot (SpecSynth, SpecSeeded,    *)
(*                      SpecRegional, SpecPower)                           *)
(*   webSocket.js     - sessions, push timers, control messages, chart     *)
(*                      history, calculateStats, the pushed payload (Spec, *)
(*                      SpecCtl, SpecAsk, SpecIso, SpecMsg, SpecFull,      *)
(*                      SpecStats, SpecChart, SpecPayload)                 *)
(*   useTelemetry     - the client hook: sockets, reconnect timeouts       *)
(*                      (SpecHook)                                         *)
(*                                                                         *)
(* Numbers with a fractional part are kept as scaled integers:             *)
(*   loadMultiplier in tenths (10 = 1.0), nextSpikeIn in 1/Resolution of   *)
(*   a tick.  A socket is assumed to behave as in ws 7 and later: send on  *)
(*   a socket that is no longer open delivers nothing and does not throw.  *)
(***************************************************************************)
EXTENDS Integers, Sequences, FiniteSets, TLC

VARIABLES
    \* ---- stateMachine.js
    currentState,   \* the shared LoadSpikeState object
    nextSpikeIn,    \* countdown to the next automatic spike, in 1/Resolution ticks
    hist,           \* history of the running countdown / spike (observation only)
    copyObj,        \* the object allocated by the last getClusterState call
    held,           \* the reference a caller of getClusterState holds
    observed,       \* the value the caller last saw through that reference
    \* ---- webSocket.js
    conn,           \* readyState of each session's socket
    timer,          \* whether the session's telemetryInterval is scheduled
    muted,          \* the process-wide mute flag (aiAssistant.js)
    lastToggle,     \* the last mute / unmute message handled (observation only)
    ttsConfigured,  \* process.env.ELEVENLABS_API_KEY is set
    chartHistory,   \* the four parallel series
    now,            \* the clock read by updateChartData
    pending,        \* message handlers suspended on an await
    nextReq,        \* number of ask_ai / ask_question requests received so far
    asksLeft,       \* number of such requests the clients will still send
    loop,           \* the event loop: "idle" between callbacks
    sent,           \* per session: the messages delivered by the last step
    lastOp,         \* the last callback that ran
    \* ---- simulator.js
    snapshot,       \* the clusters the last generateTelemetry() call returned
    lastStats,      \* what the last calculateStats(snapshot) call returned
    prevStats,      \* what the call before it returned for the same snapshot
    seed,           \* the draws Math.random() is fixed to return, if it is fixed
    probe,          \* two online nodes looked at side by side (observation only)
    \* ---- useTelemetry (the client hook)
    effect,         \* number of the running effect of the hook, 0 before the first
    cleaned,        \* the effects whose isCleanedUp is true
    hookStatus,     \* the ConnectionStatus state of the hook
    telemetry,      \* the socket whose payload setTelemetry stored last, 0 if none
    sockets,        \* the WebSocket objects created so far
    wsRef,          \* wsRef.current: a socket, 0 for null
    timeouts,       \* the reconnect timeouts that are scheduled
    reconnectTimeoutRef,  \* reconnectTimeoutRef.current: a timeout id, 0 for null
    reconnectAttempts,    \* reconnectAttempts.current
    closesSinceOpen, \* closes handled since the last open was (observation only)
    \* ---- the objects updateChartData returns
    handed,         \* the payload updateChartData returned last
    handedSeen      \* the payload returned before it, as its holder reads it now

smVars   == <<currentState, nextSpikeIn, hist, copyObj, held, observed>>
sessVars == <<conn, timer, muted, lastToggle, ttsConfigured, chartHistory, now,
              pending, nextReq, asksLeft, loop, sent>>
synVars  == <<snapshot, lastStats, prevStats, seed, probe>>
hookVars == <<effect, cleaned, hookStatus, telemetry, sockets, wsRef, timeouts,
              reconnectTimeoutRef, reconnectAttempts, closesSinceOpen>>
vars     == <<currentState, nextSpikeIn, hist, copyObj, held, observed,
              conn, timer, muted, lastToggle, ttsConfigured, chartHistory, now,
              pending, nextReq, asksLeft, loop, sent, lastOp, snapshot,
              lastStats, prevStats, seed, probe, effect, cleaned, hookStatus,
              telemetry, sockets, wsRef, timeouts, reconnectTimeoutRef,
              reconnectAttempts, closesSinceOpen, handed, handedSeen>>
chartVars == <<handed, handedSeen>>

(***************************************************************************)
(* Bounds of the model                                                     *)
(***************************************************************************)
\* nextSpikeIn is a real number; it is kept in units of 1/Resolution tick
Resolution == 2
\* number of sessions that may connect
NumSessions == 2
\* ask_ai / ask_question requests the clients send in one run
MaxAsks == 1
\* the time label of the chart wraps after ClockPeriod readings
ClockPeriod == 2

Sessions == 1..NumSessions
\* no generateTelemetry() call is being looked at
NoSnapshot == <<>>
\* calculateStats has not been called on the snapshot
NoStats == <<>>
\* Math.random() is not fixed: every call draws anew
NoSeed == <<>>
\* no pair of nodes is being looked at
NoProbe == <<>>
NoOp == [type |-> "none", sess |-> 0, req |-> 0]

(***************************************************************************)
(* stateMachine.js                                                         *)
(***************************************************************************)
NormalMultiplier == 10
ManualMultiplier == 15
ManualDuration == 10
CountdownMin == 120
CountdownRange == 180
\* setInterval(updateStateMachine, 2000): seconds between two ticks
TickSeconds == 2
\* "Triggered load spike for 10 seconds."
ManualSeconds == 10

spikeProfiles ==
    << [region |-> "global",  multiplier |-> 15, duration |-> 30],
       [region |-> "houston", multiplier |-> 18, duration |-> 20],
       [region |-> "london",  multiplier |-> 14, duration |-> 25],
       [region |-> "norway",  multiplier |-> 16, duration |-> 15],
       [region |-> "calgary", multiplier |-> 17, duration |-> 18] >>

InitialState ==
    [status |-> "normal", loadMultiplier |-> NormalMultiplier,
     region |-> "global", duration |-> 0]

\* Math.random() * 180 + 120: a real in [120, 300).  The draws kept are the
\* smallest value, the smallest value with a fractional part, and the largest.
CountdownDraws ==
    { CountdownMin * Resolution,
      CountdownMin * Resolution + 1,
      (CountdownMin + CountdownRange) * Resolution - 1 }

\* Math.floor(Math.random() * spikeProfiles.length)
ProfileDraws == 1..Len(spikeProfiles)

\* the spike branch after duration-- reached 0: back to normal
SpikeEndedKeepMultiplier(cs) ==
    [cs EXCEPT !.status = "normal", !.region = "global"]

SpikeEndedKeepRegion(cs) ==
    [cs EXCEPT !.status = "normal", !.loadMultiplier = NormalMultiplier]

SpikeEndedStaysSpike(cs) ==
    [cs EXCEPT !.loadMultiplier = NormalMultiplier, !.region = "global"]

SpikeEnded(cs) ==
    [cs EXCEPT !.status = "normal", !.loadMultiplier = NormalMultiplier,
               !.region = "global"]

\* if (nextSpikeIn <= 0)
SpikeDueStrict(n) == n < 0

SpikeDue(n) == n <= 0

\* the countdown branch picked spikeProfiles[i]
SpikeTriggered(cs, i) ==
    [cs EXCEPT !.status = "spike",
               !.loadMultiplier = spikeProfiles[i].multiplier,
               !.region = spikeProfiles[i].region,
               !.duration = spikeProfiles[i].duration]

\* simulateLoadSpike()
simulateLoadSpikeKeepRegion(cs) ==
    [cs EXCEPT !.loadMultiplier = ManualMultiplier, !.status = "spike",
               !.duration = ManualDuration]

simulateLoadSpike(cs) ==
    [cs EXCEPT !.loadMultiplier = ManualMultiplier, !.status = "spike",
               !.region = "global", !.duration = ManualDuration]

\* hist: c0 = the countdown as seeded, n = ticks since it was seeded,
\* clean = no manual trigger since, d0 = duration the running spike started
\* with, m = ticks since the spike started, ended = the spike just ended
\* after hist.m ticks
SeedHist(c) == [c0 |-> c, n |-> 0, clean |-> TRUE, d0 |-> 0, m |-> 0,
                ended |-> FALSE]

\* updateStateMachine(); tickCounter is written and never read, it is left out
updateStateMachine ==
    /\ IF currentState.status = "spike"
       THEN LET dec == [currentState EXCEPT !.duration = @ - 1] IN
            IF dec.duration <= 0
            THEN \E c \in CountdownDraws :
                   /\ currentState' = SpikeEnded(dec)
                   /\ nextSpikeIn' = c
                   /\ hist' = [SeedHist(c) EXCEPT !.d0 = hist.d0,
                                                  !.m = hist.m + 1,
                                                  !.ended = TRUE]
            ELSE /\ currentState' = dec
                 /\ nextSpikeIn' = nextSpikeIn
                 /\ hist' = [hist EXCEPT !.m = @ + 1]
       ELSE LET n == nextSpikeIn - Resolution IN
            /\ nextSpikeIn' = n
            /\ IF SpikeDue(n)
               THEN \E i \in ProfileDraws :
                      /\ currentState' = SpikeTriggered(currentState, i)
                      /\ hist' = [hist EXCEPT !.n = @ + 1, !.ended = FALSE,
                                              !.d0 = spikeProfiles[i].duration,
                                              !.m = 0]
               ELSE /\ currentState' = currentState
                    /\ hist' = [hist EXCEPT !.n = @ + 1, !.ended = FALSE]
    /\ lastOp' = [NoOp EXCEPT !.type = "tick"]
    /\ UNCHANGED <<copyObj, held, observed>>
    /\ UNCHANGED sessVars
    /\ UNCHANGED synVars
    /\ UNCHANGED hookVars
    /\ UNCHANGED chartVars

\* GET /api/simulate-load-spike
SimulateRoute ==
    /\ currentState' = simulateLoadSpike(currentState)
    /\ hist' = [hist EXCEPT !.clean = FALSE, !.ended = FALSE,
                            !.d0 = ManualDuration, !.m = 0]
    /\ lastOp' = [NoOp EXCEPT !.type = "simulateLoadSpike"]
    /\ UNCHANGED <<nextSpikeIn, copyObj, held, observed>>
    /\ UNCHANGED sessVars
    /\ UNCHANGED synVars
    /\ UNCHANGED hookVars
    /\ UNCHANGED chartVars

(***************************************************************************)
(* getClusterState and a caller that keeps the returned value              *)
(***************************************************************************)
NoObj == [status |-> "none", loadMultiplier |-> 0, region |-> "none",
          duration |-> 0]

\* return { ...currentState }: a newly allocated object with the same fields
getClusterStateAlias == "shared"

getClusterState == "copy"

Deref(r) == IF r = "shared" THEN currentState ELSE copyObj

\* assignments a caller may make to a field of the returned object
CallerWrites ==
    { [field |-> "status", value |-> "tampered"],
      [field |-> "duration", value |-> 99] }

WriteField(obj, w) ==
    IF w.field = "status" THEN [obj EXCEPT !.status = w.value]
                          ELSE [obj EXCEPT !.duration = w.value]

GetClusterState ==
    /\ held = "none"
    /\ held' = getClusterState
    /\ copyObj' = IF held' = "copy" THEN currentState ELSE copyObj
    /\ observed' = currentState
    /\ lastOp' = [NoOp EXCEPT !.type = "getClusterState"]
    /\ UNCHANGED <<currentState, nextSpikeIn, hist>>
    /\ UNCHANGED sessVars
    /\ UNCHANGED synVars
    /\ UNCHANGED hookVars
    /\ UNCHANGED chartVars

CallerWrite ==
    /\ held # "none"
    /\ \E w \in CallerWrites :
         /\ Deref(held)[w.field] # w.value
         /\ IF held = "shared"
            THEN /\ currentState' = WriteField(currentState, w)
                 /\ copyObj' = copyObj
            ELSE /\ copyObj' = WriteField(copyObj, w)
                 /\ currentState' = currentState
         /\ observed' = WriteField(Deref(held), w)
    /\ lastOp' = [NoOp EXCEPT !.type = "callerWrite"]
    /\ UNCHANGED <<nextSpikeIn, hist, held>>
    /\ UNCHANGED sessVars
    /\ UNCHANGED synVars
    /\ UNCHANGED hookVars
    /\ UNCHANGED chartVars

\* the caller drops the reference
CallerDrop ==
    /\ held # "none"
    /\ held' = "none"
    /\ copyObj' = NoObj
    /\ observed' = NoObj
    /\ lastOp' = [NoOp EXCEPT !.type = "callerDrop"]
    /\ UNCHANGED <<currentState, nextSpikeIn, hist>>
    /\ UNCHANGED sessVars
    /\ UNCHANGED synVars
    /\ UNCHANGED hookVars
    /\ UNCHANGED chartVars

(***************************************************************************)
(* simulator.js: synthesis of a snapshot                                   *)
(*                                                                         *)
(* gpuLoad and cooling are integers (percent).  temperature is kept in     *)
(* tenths of a degree and powerUsage in hundredths of a kW.  The rounding  *)
(* errors of floating-point sums (below 1e-12) are left out.  Fields that  *)
(* no computation reads (label, workload, dataCenter, lat, lng, time) and  *)
(* the coolingState tracker, which is read and never used, are left out.   *)
(***************************************************************************)
NodesPerCluster == 8
ClusterCount == 8

\* clusterProfiles[clusterIndex]; location in lower case
clusterProfiles ==
    << [name |-> "A", gpuBias |-> 20,  location |-> "houston"],
       [name |-> "B", gpuBias |-> -15, location |-> "calgary"],
       [name |-> "C", gpuBias |-> 5,   location |-> "stavanger"],
       [name |-> "D", gpuBias |-> -20, location |-> "doha"],
       [name |-> "E", gpuBias |-> 15,  location |-> "perth"],
       [name |-> "F", gpuBias |-> -10, location |-> "jakarta"],
       [name |-> "G", gpuBias |-> 10,  location |-> "anchorage"],
       [name |-> "H", gpuBias |-> 0,   location |-> "beijing"] >>

\* globalLocations[clusterIndex % 8].name, as the words it is made of
globalLocations ==
    << [name |-> "Houston, USA",       words |-> {"houston", "usa"}],
       [name |-> "Calgary, Canada",    words |-> {"calgary", "canada"}],
       [name |-> "Stavanger, Norway",  words |-> {"stavanger", "norway"}],
       [name |-> "Doha, Qatar",        words |-> {"doha", "qatar"}],
       [name |-> "Perth, Australia",   words |-> {"perth", "australia"}],
       [name |-> "Jakarta, Indonesia", words |-> {"jakarta", "indonesia"}],
       [name |-> "Anchorage, Alaska",  words |-> {"anchorage", "alaska"}],
       [name |-> "Beijing, China",     words |-> {"beijing", "china"}] >>

\* text.toLowerCase().includes(region.toLowerCase()), text given by its
\* words: every region of spikeProfiles is a whole word or occurs in no name
Includes(words, region) == region \in words

\* isAffected of the cluster with index idx (1-based) in spike state cs
isAffectedAll(cs, idx) == TRUE

isAffected(cs, idx) ==
    \/ cs.region = "global"
    \/ Includes(globalLocations[idx].words, cs.region)
    \/ Includes({clusterProfiles[idx].location}, cs.region)

Min(a, b) == IF a < b THEN a ELSE b
Max(a, b) == IF a > b THEN a ELSE b

\* Math.min(100, Math.max(0, x))
NoClamp(x) == x

Clamp100(x) == Min(100, Max(0, x))

\* The Math.random() values one node consumes, by what they decide:
\*   gpu   Math.random() * 30 - 15, in tenths            (-150 .. 149)
\*   over  Math.random() > 0.7 ? 25 : 15
\*   ai    Math.random() > 0.3
\*   adj   Math.floor(Math.random() * 10 - 5)            (-5 .. 4)
\*   temp  Math.random() * 4 - 2, in tenths              (-20 .. 19)
\*   off   Math.random() < 0.02
NodeDraws ==
    [gpu : {-150, 0, 149}, over : {15, 25}, ai : BOOLEAN, adj : {-5, 4},
     temp : {-20, 19}, off : BOOLEAN]

LowDraw  == [gpu |-> -150, over |-> 15, ai |-> TRUE, adj |-> -5,
             temp |-> -20, off |-> FALSE]
HighDraw == [gpu |-> 149, over |-> 25, ai |-> FALSE, adj |-> 4,
             temp |-> 19, off |-> FALSE]
OffDraw  == [HighDraw EXCEPT !.off = TRUE]

\* gpuLoad: rawGpu = 50 + gpuBias + draw, times loadMultiplier when the
\* cluster is affected, floored and clamped
gpuLoadOfUnscaled(bias, affected, multiplier, d) ==
    Clamp100((500 + 10 * bias + d.gpu) \div 10)

gpuLoadOf(bias, affected, multiplier, d) ==
    LET rawGpu10 == 500 + 10 * bias + d.gpu
        adjustedGpu100 == IF affected THEN rawGpu10 * multiplier
                                      ELSE rawGpu10 * 10
    IN  Clamp100(adjustedGpu100 \div 100)

\* nodeCooling: idealCooling plus an offset, or load plus over-cooling
nodeCoolingOfNoHeadroom(gpuLoad, d) ==
    Clamp100(IF d.ai THEN gpuLoad + d.adj ELSE gpuLoad + d.over)

nodeCoolingOf(gpuLoad, d) ==
    Clamp100(IF d.ai THEN (gpuLoad + 5) + d.adj ELSE gpuLoad + d.over)

\* temperature = 20 + gpuLoad * 0.2 + draw, in tenths
temperatureOf(gpuLoad, d) == 200 + 2 * gpuLoad + d.temp

\* the same sum rounded with toFixed(1)
powerUsageOfToFixed1(gpuLoad, nodeCooling, tieUp) ==
    LET exact1000 == 1500 + 45 * gpuLoad + 8 * nodeCooling IN
    IF exact1000 % 100 = 50 /\ ~tieUp THEN 10 * (exact1000 \div 100)
                                      ELSE 10 * ((exact1000 + 50) \div 100)

\* parseFloat((1.5 + gpuLoad / 100 * 4.5 + nodeCooling / 100 * 0.8)
\* .toFixed(2)), in hundredths.  When the exact sum lies halfway between two
\* hundredths the binary value decides the direction: tieUp is that outcome.
powerUsageOf(gpuLoad, nodeCooling, tieUp) ==
    LET exact1000 == 1500 + 45 * gpuLoad + 8 * nodeCooling IN
    IF exact1000 % 10 = 5 /\ ~tieUp THEN exact1000 \div 10
                                    ELSE (exact1000 + 5) \div 10

\* what an online node reports of its load, cooling and power
OnlineNode(gpuLoad, nodeCooling, tieUp) ==
    [gpuLoad |-> gpuLoad, cooling |-> nodeCooling,
     powerUsage |-> powerUsageOf(gpuLoad, nodeCooling, tieUp)]

\* the inputs to compare a node with: the next value, the one after it and
\* the largest
Above(x) == {y \in {x + 1, x + 2, 100} : x < y /\ y <= 100}

\* the power computation of the node loop applied to two online nodes that
\* differ in load only or in cooling only; each toFixed(2) resolves a tie
\* in its own direction
MeasurePair ==
    /\ probe = NoProbe
    /\ \E l \in 0..100, c \in 0..100, t1 \in BOOLEAN, t2 \in BOOLEAN :
           \/ \E l2 \in Above(l) :
                  probe' = << OnlineNode(l, c, t1), OnlineNode(l2, c, t2) >>
           \/ \E c2 \in Above(c) :
                  probe' = << OnlineNode(l, c, t1), OnlineNode(l, c2, t2) >>
    /\ lastOp' = [NoOp EXCEPT !.type = "powerUsage"]
    /\ UNCHANGED <<snapshot, lastStats, prevStats, seed>>
    /\ UNCHANGED smVars
    /\ UNCHANGED sessVars
    /\ UNCHANGED hookVars
    /\ UNCHANGED chartVars

\* one iteration of the node loop: node i of the cluster with index idx
generateNode(idx, i, cs, d, tieUp) ==
    LET gpuLoad == gpuLoadOf(clusterProfiles[idx].gpuBias,
                             isAffected(cs, idx), cs.loadMultiplier, d)
        nodeCooling == nodeCoolingOf(gpuLoad, d)
        status == IF d.off THEN "offline" ELSE "online"
    IN  [id          |-> (idx - 1) * NodesPerCluster + i,
         clusterName |-> clusterProfiles[idx].name,
         gpuLoad     |-> IF status = "offline" THEN 0 ELSE gpuLoad,
         cooling     |-> IF status = "offline" THEN 0 ELSE nodeCooling,
         temperature |-> IF status = "offline" THEN 0
                         ELSE temperatureOf(gpuLoad, d),
         powerUsage  |-> IF status = "offline" THEN 0
                         ELSE powerUsageOf(gpuLoad, nodeCooling, tieUp),
         status      |-> status]

RECURSIVE SumSeq(_)
SumSeq(s) == IF s = <<>> THEN 0 ELSE Head(s) + SumSeq(Tail(s))

\* Math.round(p / q) for p >= 0, q > 0
RoundDiv(p, q) == (2 * p + q) \div (2 * q)

\* nodes.every(n => n.status === "offline")
SomeOffline(nodes) == \E i \in 1..Len(nodes) : nodes[i].status = "offline"

AllOffline(nodes) == \A i \in 1..Len(nodes) : nodes[i].status = "offline"

\* regionalTempBias of a site, in degrees
regionalTempBias(site) ==
    IF Includes(site.words, "norway") THEN -3
    ELSE IF Includes(site.words, "canada") THEN -2
    ELSE IF Includes(site.words, "uk") THEN 0
    ELSE IF Includes(site.words, "houston") THEN 2
    ELSE 0

\* the random source of one generateTelemetry() call: in the first m
\* clusters the first n nodes consume the draws a, every other node the
\* draws b; tieUp is the direction in which toFixed(2) resolves a tie
RandomSources ==
    [a : NodeDraws, b : {LowDraw, HighDraw, OffDraw},
     n : {0, 1, NodesPerCluster - 1, NodesPerCluster},
     m : {1, ClusterCount}, tieUp : BOOLEAN]

DrawFor(rnd, idx, i) == IF idx <= rnd.m /\ i <= rnd.n THEN rnd.a ELSE rnd.b

\* generateCluster(name, clusterIndex), idx = clusterIndex + 1, in spike
\* state cs = getClusterState()
generateCluster(idx, cs, rnd) ==
    LET globalSite == globalLocations[((idx - 1) % Len(globalLocations)) + 1]
        nodes == [i \in 1..NodesPerCluster |->
                     generateNode(idx, i, cs, DrawFor(rnd, idx, i), rnd.tieUp)]
        totalGpu == SumSeq([i \in 1..NodesPerCluster |-> nodes[i].gpuLoad])
        totalCooling == SumSeq([i \in 1..NodesPerCluster |-> nodes[i].cooling])
        totalPower == SumSeq([i \in 1..NodesPerCluster |-> nodes[i].powerUsage])
        avgGpu == RoundDiv(totalGpu, NodesPerCluster)
        avgCooling == RoundDiv(totalCooling, NodesPerCluster)
    IN  [name        |-> clusterProfiles[idx].name,
         status      |-> IF AllOffline(nodes) THEN "offline" ELSE "online",
         gpuLoad     |-> avgGpu,
         cooling     |-> avgCooling,
         temperature |-> 200 + 2 * avgGpu + 10 * regionalTempBias(globalSite),
         powerUsage  |-> totalPower,
         nodeCount   |-> NodesPerCluster,
         activeNodes |-> Cardinality({i \in 1..NodesPerCluster :
                                         nodes[i].status = "online"}),
         site        |-> globalSite.name,
         nodes       |-> nodes,
         spikeActive |-> isAffected(cs, idx) /\ cs.status = "spike"]

\* generateTelemetry(): the eight clusters A .. H
generateSnapshot(cs, rnd) ==
    [idx \in 1..ClusterCount |-> generateCluster(idx, cs, rnd)]

(***************************************************************************)
(* webSocket.js: calculateStats                                            *)
(*   powerDrawMW in 1e-5 MW (the unit of a cluster's powerUsage, since the *)
(*   code divides kW by 1000), energySavings in tenths of a percent,       *)
(*   coolingPUE in thousandths                                             *)
(***************************************************************************)
BaselinePower == 277000
Co2PerMwHour == 278

\* a JavaScript number: a finite value or what a division by zero gives
Finite(v) == [kind |-> "finite", val |-> v]
NaN       == [kind |-> "NaN", val |-> 0]
Infinity  == [kind |-> "Infinity", val |-> 0]

\* p / q in thousandths, p >= 0 and q >= 0
JsDivide1000(p, q) ==
    IF q # 0 THEN Finite((1000 * p) \div q)
    ELSE IF p = 0 THEN NaN ELSE Infinity

\* itPower > 0 ? totalPower / itPower : 1.0
PueGuardOff(itPower) == TRUE

PueGuard(itPower) == itPower > 0

\* the same reduction scaled by the multiplier of the running spike
calculateStatsOfSpike(clusters) ==
    LET n == Len(clusters)
        itPower == SumSeq([k \in 1..n |-> clusters[k].powerUsage])
        currentPowerDraw == (itPower * currentState.loadMultiplier) \div 10
    IN  [energySavings |->
             ((BaselinePower - currentPowerDraw) * 1000) \div BaselinePower,
         co2OffsetKg   |-> RoundDiv(currentPowerDraw * Co2PerMwHour, 100000),
         powerDrawMW   |-> currentPowerDraw,
         coolingPUE    |-> Finite(1000)]

\* the same reduction with the sum of kW divided by 100 instead of 1000
calculateStatsDiv100(clusters) ==
    LET n == Len(clusters)
        itPower == SumSeq([k \in 1..n |-> clusters[k].powerUsage])
        totalPower == SumSeq([k \in 1..n |-> clusters[k].powerUsage
                                               + 100 * clusters[k].cooling])
        currentPowerDraw == 10 * itPower
    IN  [energySavings |->
             ((BaselinePower - currentPowerDraw) * 1000) \div BaselinePower,
         co2OffsetKg   |-> RoundDiv(currentPowerDraw * Co2PerMwHour, 100000),
         powerDrawMW   |-> currentPowerDraw,
         coolingPUE    |-> IF PueGuard(itPower)
                           THEN JsDivide1000(totalPower, itPower)
                           ELSE Finite(1000)]

calculateStats(clusters) ==
    LET n == Len(clusters)
        itPower == SumSeq([k \in 1..n |-> clusters[k].powerUsage])
        totalPower == SumSeq([k \in 1..n |-> clusters[k].powerUsage
                                               + 100 * clusters[k].cooling])
        currentPowerDraw == itPower
    IN  [energySavings |->
             ((BaselinePower - currentPowerDraw) * 1000) \div BaselinePower,
         co2OffsetKg   |-> RoundDiv(currentPowerDraw * Co2PerMwHour, 100000),
         powerDrawMW   |-> currentPowerDraw,
         coolingPUE    |-> IF PueGuard(itPower)
                           THEN JsDivide1000(totalPower, itPower)
                           ELSE Finite(1000)]

(***************************************************************************)
(* generateTelemetry() called in a given spike state                       *)
(***************************************************************************)
\* the random sources a call of generateTelemetry() may consume
SourcesNow == IF seed = NoSeed THEN RandomSources ELSE {seed}

\* one call of generateTelemetry()
Synthesize ==
    /\ snapshot = NoSnapshot
    /\ \E rnd \in SourcesNow :
           snapshot' = generateSnapshot(currentState, rnd)
    /\ UNCHANGED <<seed, probe>>
    /\ lastStats' = NoStats
    /\ prevStats' = NoStats
    /\ lastOp' = [NoOp EXCEPT !.type = "generateTelemetry"]
    /\ UNCHANGED smVars
    /\ UNCHANGED sessVars
    /\ UNCHANGED hookVars
    /\ UNCHANGED chartVars

\* lastStats: calculateStats(clusters) called on the clusters of the snapshot;
\* the function reads its argument and two local constants only
Aggregate ==
    /\ snapshot # NoSnapshot
    /\ lastStats' = calculateStats(snapshot)
    /\ prevStats' = lastStats
    /\ lastOp' = [NoOp EXCEPT !.type = "calculateStats"]
    /\ UNCHANGED <<snapshot, seed, probe>>
    /\ UNCHANGED smVars
    /\ UNCHANGED sessVars
    /\ UNCHANGED hookVars
    /\ UNCHANGED chartVars

\* the caller is done with the clusters
Discard ==
    /\ snapshot # NoSnapshot
    /\ snapshot' = NoSnapshot
    /\ lastStats' = NoStats
    /\ prevStats' = NoStats
    /\ UNCHANGED <<seed, probe>>
    /\ lastOp' = [NoOp EXCEPT !.type = "discard"]
    /\ UNCHANGED smVars
    /\ UNCHANGED sessVars
    /\ UNCHANGED hookVars
    /\ UNCHANGED chartVars

(***************************************************************************)
(* webSocket.js: chart history                                             *)
(***************************************************************************)
ChartCapacity == 20

EmptyChart == [labels |-> <<>>, gpuData |-> <<>>, coolingData |-> <<>>,
               energyData |-> <<>>]

\* What updateChartData reads of a snapshot: the sums over all nodes of
\* gpuLoad and cooling, and the number of nodes (8 clusters of 8).
FleetSamples ==
    << [totalGpu |-> 3200, totalCooling |-> 3712, totalNodes |-> 64],
       [totalGpu |-> 0,    totalCooling |-> 0,    totalNodes |-> 64],
       [totalGpu |-> 4480, totalCooling |-> 4800, totalNodes |-> 64] >>

\* generateTelemetry() called at clock reading t: the random source is a
\* fixed sequence of draws, read in step with the clock
generateTelemetry(t) == FleetSamples[(t % Len(FleetSamples)) + 1]

\* (p / q).toFixed(1) in tenths, q > 0: rounded to the nearest tenth
ToFixed1(p, q) == (20 * p + q) \div (2 * q)

\* avgGpu.toFixed(1), avgCooling.toFixed(1), energySavings.toFixed(1)
AvgGpu10(c) ==
    IF c.totalNodes > 0 THEN ToFixed1(c.totalGpu, c.totalNodes) ELSE 0

AvgCooling10(c) ==
    IF c.totalNodes > 0 THEN ToFixed1(c.totalCooling, c.totalNodes) ELSE 0

\* 32 + (1 - avgGpu / avgCooling) * 15, ratio 1 when avgCooling is 0
EnergySavings10(c) ==
    IF c.totalNodes > 0 /\ c.totalCooling > 0
    THEN ToFixed1(32 * c.totalCooling + 15 * (c.totalCooling - c.totalGpu),
                  c.totalCooling)
    ELSE 320

\* if (chartHistory.labels.length > 20) shift all four series
EvictOldest(h) ==
    IF Len(h.labels) > ChartCapacity
    THEN [labels |-> Tail(h.labels), gpuData |-> Tail(h.gpuData),
          coolingData |-> Tail(h.coolingData),
          energyData |-> Tail(h.energyData)]
    ELSE h

\* the chart history after updateChartData(clusters) at clock reading t
updateChartData(h, c, t) ==
    LET e == EvictOldest(h) IN
    [labels      |-> Append(e.labels, t),
     gpuData     |-> Append(e.gpuData, AvgGpu10(c)),
     coolingData |-> Append(e.coolingData, AvgCooling10(c)),
     energyData  |-> Append(e.energyData, EnergySavings10(c))]

\* the value updateChartData returns: copies of the series, three datasets
ChartPayload(h) ==
    [labels |-> h.labels,
     datasets |-> << [label |-> "GPU Utilization %", data |-> h.gpuData],
                     [label |-> "Cooling Power %", data |-> h.coolingData],
                     [label |-> "Energy Savings %", data |-> h.energyData] >>]

NoChart == [labels |-> <<>>, datasets |-> <<>>]

ChartInit == handed = NoChart /\ handedSeen = NoChart

\* what the holder of a payload returned earlier reads once the chart
\* history has become h: the payload holds [...chartHistory.labels] and
\* [...chartHistory.*Data], arrays of its own
HandedAfterShared(old, h) == ChartPayload(h)

HandedAfter(old, h) == old

\* updateChartData returns a payload, the chart history having become h
HandOver(h) ==
    /\ handed' = ChartPayload(h)
    /\ handedSeen' = HandedAfter(handed, h)

\* what updateChartData reads of the clusters: the sums over all nodes
FleetTotals(clusters) ==
    LET n == Len(clusters)
        SumOver(Field(_)) ==
            SumSeq([k \in 1..n |->
                       SumSeq([i \in 1..Len(clusters[k].nodes) |->
                                  Field(clusters[k].nodes[i])])])
        Gpu(node) == node.gpuLoad
        Cooling(node) == node.cooling
        One(node) == 1
    IN  [totalGpu |-> SumOver(Gpu), totalCooling |-> SumOver(Cooling),
         totalNodes |-> SumOver(One)]

\* updateChartData(clusters) called once on the clusters just synthesized
ChartSnapshot ==
    /\ snapshot # NoSnapshot
    /\ lastOp.type = "generateTelemetry"
    /\ chartHistory' = updateChartData(chartHistory, FleetTotals(snapshot), now)
    /\ HandOver(chartHistory')
    /\ now' = (now + 1) % ClockPeriod
    /\ lastOp' = [NoOp EXCEPT !.type = "updateChartData"]
    /\ UNCHANGED <<conn, timer, muted, lastToggle, ttsConfigured, pending,
                   nextReq, asksLeft, loop, sent>>
    /\ UNCHANGED synVars
    /\ UNCHANGED smVars
    /\ UNCHANGED hookVars

(***************************************************************************)
(* webSocket.js: the per-cluster and per-node views of the payload         *)
(***************************************************************************)
Abs(x) == IF x < 0 THEN -x ELSE x

\* the status transformClustersForFrontend gives a cluster
clusterViewStatusAsIs(cluster) ==
    IF cluster.status = "offline" THEN "offline"
    ELSE IF cluster.gpuLoad > 70 THEN "active"
    ELSE IF cluster.gpuLoad > 40
    THEN IF Abs(cluster.cooling - cluster.gpuLoad) > 15 THEN "optimizing"
                                                        ELSE "active"
    ELSE IF cluster.cooling > cluster.gpuLoad + 20 THEN "optimizing"
                                                   ELSE "idle"

clusterViewStatus(cluster) ==
    IF cluster.status = "offline" THEN "idle"
    ELSE LET avgGpuLoad == cluster.gpuLoad
             avgCooling == cluster.cooling
             coolingEfficiency == avgCooling - avgGpuLoad
         IN  IF avgGpuLoad > 70 THEN "active"
             ELSE IF avgGpuLoad > 40
             THEN IF Abs(coolingEfficiency) > 15 THEN "optimizing"
                                                 ELSE "active"
             ELSE IF avgCooling > avgGpuLoad + 20 THEN "optimizing"
                                                  ELSE "idle"

\* power: parseFloat(cluster.powerUsage.toFixed(2)); the sum of the nodes'
\* powers is a number of hundredths up to the error of the floating-point
\* sum, which toFixed(2) removes
transformClustersForFrontend(clusters) ==
    [k \in 1..Len(clusters) |->
        [name    |-> clusters[k].name,
         status  |-> clusterViewStatus(clusters[k]),
         gpu     |-> clusters[k].gpuLoad,
         cooling |-> clusters[k].cooling,
         power   |-> clusters[k].powerUsage]]

\* the visual state generateNodes gives a node
nodeViewState(node) ==
    IF node.status = "offline" THEN "idle"
    ELSE IF node.gpuLoad > 75 THEN "hot"
    ELSE IF node.gpuLoad > 30 THEN "active"
    ELSE "idle"

\* generateNodes(clusters): the nodes of all clusters in one array;
\* temperature.toFixed(1) keeps the tenths the model has
generateNodes(clusters) ==
    [j \in 1..(Len(clusters) * NodesPerCluster) |->
        LET node == clusters[((j - 1) \div NodesPerCluster) + 1]
                        .nodes[((j - 1) % NodesPerCluster) + 1]
        IN  [id          |-> node.id,
             clusterName |-> node.clusterName,
             state       |-> nodeViewState(node),
             gpuLoad     |-> node.gpuLoad,
             temperature |-> node.temperature,
             cooling     |-> node.cooling,
             powerUsage  |-> node.powerUsage,
             status      |-> node.status]]

(***************************************************************************)
(* webSocket.js: messages to the clients                                   *)
(***************************************************************************)
Msg(t) == [type |-> t, muted |-> FALSE, audio |-> FALSE, req |-> 0,
           chart |-> NoChart, stats |-> NoStats, clusters |-> <<>>,
           nodes |-> <<>>]

TelemetryMsg(h) == [Msg("telemetry") EXCEPT !.chart = ChartPayload(h)]
\* the telemetry message with its whole payload
PayloadMsg(h, clusters) ==
    [Msg("telemetry") EXCEPT !.chart = ChartPayload(h),
                             !.stats = calculateStats(clusters),
                             !.clusters = transformClustersForFrontend(clusters),
                             !.nodes = generateNodes(clusters)]
MuteStateMsg(m) == [Msg("mute-state") EXCEPT !.muted = m]
PongMsg         == Msg("pong")
\* ai_response / ai_answer for request r; audio: the audio field is not null
ReplyMsgAsResponse(r, a) ==
    [Msg("ai_response") EXCEPT !.audio = a, !.req = r.id]

ReplyMsg(r, a)  == [Msg(IF r.kind = "ask_ai" THEN "ai_response"
                                             ELSE "ai_answer")
                       EXCEPT !.audio = a, !.req = r.id]
ErrorMsg(r)     == [Msg("ai_error") EXCEPT !.req = r.id]

NoneSent == [s \in Sessions |-> <<>>]

\* ws.send(m) on the socket of session s: delivered when the socket is open
\* and dropped otherwise
SendUnchecked(s, m) == [NoneSent EXCEPT ![s] = <<m>>]

Send(s, m) == [NoneSent EXCEPT ![s] = IF conn[s] = "open" THEN <<m>> ELSE <<>>]

\* the names bound in the module scope of webSocket.js (imports and top-level
\* declarations); wss is a parameter of startTelemetry only
ModuleScope ==
    { "generateTelemetry", "getClusterState", "simulateLoadSpike",
      "appendLog", "analyzeClusterData", "textToSpeech", "askQuestion",
      "muteAssistant", "unmuteAssistant", "getMuteState",
      "transformClustersForFrontend", "generateNodes", "chartHistory",
      "updateChartData", "calculateStats", "startTelemetry",
      "broadcastMuteState" }

\* broadcastMuteState(): wss.clients.forEach(client => readyState === 1 ...).
\* Evaluating a name that is not in scope throws a ReferenceError, which the
\* catch of the message handler swallows: nothing is sent.
broadcastMuteState(m) ==
    IF "wss" \in ModuleScope
    THEN [t \in Sessions |-> IF conn[t] = "open" THEN <<MuteStateMsg(m)>>
                                                  ELSE <<>>]
    ELSE NoneSent

\* muteAssistant(), unmuteAssistant(), getMuteState() of aiAssistant.js
muteAssistant == TRUE
unmuteAssistant == FALSE
getMuteState == muted

(***************************************************************************)
(* webSocket.js: connections and the push timer                            *)
(***************************************************************************)
\* await: the handler is suspended and the event loop is free again
AwaitBlocking == "busy"

Await == "idle"

\* ws.on("close"): clearInterval(telemetryInterval)
OnCloseKeepTimer(t, s) == t

OnCloseAll(t, s) == [u \in Sessions |-> FALSE]

OnClose(t, s) == [t EXCEPT ![s] = FALSE]

\* wss.on("connection"): the socket is open and the interval is set
Connect(s) ==
    /\ loop = "idle"
    /\ conn[s] = "none"
    /\ conn' = [conn EXCEPT ![s] = "open"]
    /\ timer' = [timer EXCEPT ![s] = TRUE]
    /\ sent' = NoneSent
    /\ lastOp' = [NoOp EXCEPT !.type = "connection", !.sess = s]
    /\ UNCHANGED <<muted, lastToggle, ttsConfigured, chartHistory, now,
                   pending, nextReq, asksLeft, loop>>
    /\ UNCHANGED smVars
    /\ UNCHANGED synVars
    /\ UNCHANGED hookVars
    /\ UNCHANGED chartVars

\* the peer went away or a closing handshake began: readyState is no longer
\* OPEN, the close event has not been emitted yet
PeerGone(s) ==
    /\ loop = "idle"
    /\ conn[s] = "open"
    /\ conn' = [conn EXCEPT ![s] = "closing"]
    /\ sent' = NoneSent
    /\ lastOp' = [NoOp EXCEPT !.type = "peerGone", !.sess = s]
    /\ UNCHANGED <<timer, muted, lastToggle, ttsConfigured, chartHistory, now,
                   pending, nextReq, asksLeft, loop>>
    /\ UNCHANGED smVars
    /\ UNCHANGED synVars
    /\ UNCHANGED hookVars
    /\ UNCHANGED chartVars

\* ws.on("close")
CloseEvent(s) ==
    /\ loop = "idle"
    /\ conn[s] \in {"open", "closing"}
    /\ conn' = [conn EXCEPT ![s] = "closed"]
    /\ timer' = OnClose(timer, s)
    /\ sent' = NoneSent
    /\ lastOp' = [NoOp EXCEPT !.type = "close", !.sess = s]
    /\ UNCHANGED <<muted, lastToggle, ttsConfigured, chartHistory, now,
                   pending, nextReq, asksLeft, loop>>
    /\ UNCHANGED smVars
    /\ UNCHANGED synVars
    /\ UNCHANGED hookVars
    /\ UNCHANGED chartVars

\* the interval of session s is set and the event loop can run its callback
PushReady(s) == loop = "idle" /\ timer[s]

\* one firing of telemetryInterval of session s
Push(s) ==
    /\ PushReady(s)
    /\ LET clusters == generateTelemetry(now)
           h == updateChartData(chartHistory, clusters, now) IN
       /\ chartHistory' = h
       /\ sent' = Send(s, TelemetryMsg(h))
       /\ HandOver(h)
    /\ now' = (now + 1) % ClockPeriod
    /\ lastOp' = [NoOp EXCEPT !.type = "push", !.sess = s]
    /\ UNCHANGED <<conn, timer, muted, lastToggle, ttsConfigured, pending,
                   nextReq, asksLeft, loop>>
    /\ UNCHANGED smVars
    /\ UNCHANGED synVars
    /\ UNCHANGED hookVars

\* one firing of telemetryInterval of session s, with the clusters it
\* synthesizes and the whole payload it sends
PushSnapshot(s) ==
    /\ PushReady(s)
    /\ \E rnd \in SourcesNow :
           snapshot' = generateSnapshot(currentState, rnd)
    /\ lastStats' = calculateStats(snapshot')
    /\ chartHistory' = updateChartData(chartHistory, FleetTotals(snapshot'),
                                       now)
    /\ sent' = Send(s, PayloadMsg(chartHistory', snapshot'))
    /\ HandOver(chartHistory')
    /\ now' = (now + 1) % ClockPeriod
    /\ lastOp' = [NoOp EXCEPT !.type = "push", !.sess = s]
    /\ UNCHANGED <<conn, timer, muted, lastToggle, ttsConfigured, pending,
                   nextReq, asksLeft, loop>>
    /\ UNCHANGED <<prevStats, seed, probe>>
    /\ UNCHANGED smVars
    /\ UNCHANGED hookVars

(***************************************************************************)
(* webSocket.js: ws.on("message")                                          *)
(***************************************************************************)
\* the two request kinds that call the Analysis Gateway, with data.withAudio
AskKinds == {"ask_ai", "ask_question"}

\* JSON.parse(msg) throws: the catch logs, nothing else happens
OnMalformedClose(s) ==
    /\ conn' = [conn EXCEPT ![s] = "closing"]
    /\ sent' = NoneSent
    /\ lastOp' = [NoOp EXCEPT !.type = "malformed", !.sess = s]
    /\ UNCHANGED <<timer, muted, lastToggle, ttsConfigured, chartHistory, now,
                   pending, nextReq, asksLeft, loop>>

OnMalformed(s) ==
    /\ sent' = NoneSent
    /\ lastOp' = [NoOp EXCEPT !.type = "malformed", !.sess = s]
    /\ UNCHANGED <<conn, timer, muted, lastToggle, ttsConfigured, chartHistory,
                   now, pending, nextReq, asksLeft, loop>>

\* a parsed message whose type matches no branch
OnUnknown(s) ==
    /\ sent' = NoneSent
    /\ lastOp' = [NoOp EXCEPT !.type = "unknown", !.sess = s]
    /\ UNCHANGED <<conn, timer, muted, lastToggle, ttsConfigured, chartHistory,
                   now, pending, nextReq, asksLeft, loop>>

\* data.type === "mute": muteAssistant(); broadcastMuteState(); return
OnMute(s) ==
    /\ muted' = muteAssistant
    /\ lastToggle' = [sess |-> s, type |-> "mute"]
    /\ sent' = broadcastMuteState(muted')
    /\ lastOp' = [NoOp EXCEPT !.type = "mute", !.sess = s]
    /\ UNCHANGED <<conn, timer, ttsConfigured, chartHistory, now, pending,
                   nextReq, asksLeft, loop>>

\* data.type === "unmute": unmuteAssistant(); broadcastMuteState(); return
OnUnmute(s) ==
    /\ muted' = unmuteAssistant
    /\ lastToggle' = [sess |-> s, type |-> "unmute"]
    /\ sent' = broadcastMuteState(muted')
    /\ lastOp' = [NoOp EXCEPT !.type = "unmute", !.sess = s]
    /\ UNCHANGED <<conn, timer, ttsConfigured, chartHistory, now, pending,
                   nextReq, asksLeft, loop>>

\* data.type === "get-mute-state"
OnGetMuteStateToAll(s) ==
    /\ sent' = [t \in Sessions |-> IF conn[t] = "open"
                                    THEN <<MuteStateMsg(getMuteState)>>
                                    ELSE <<>>]
    /\ lastOp' = [NoOp EXCEPT !.type = "get-mute-state", !.sess = s]
    /\ UNCHANGED <<conn, timer, muted, lastToggle, ttsConfigured, chartHistory,
                   now, pending, nextReq, asksLeft, loop>>

OnGetMuteState(s) ==
    /\ sent' = Send(s, MuteStateMsg(getMuteState))
    /\ lastOp' = [NoOp EXCEPT !.type = "get-mute-state", !.sess = s]
    /\ UNCHANGED <<conn, timer, muted, lastToggle, ttsConfigured, chartHistory,
                   now, pending, nextReq, asksLeft, loop>>

\* data.type === "ping"
OnPingToAll(s) ==
    /\ sent' = [t \in Sessions |-> IF conn[t] = "open" THEN <<PongMsg>>
                                                        ELSE <<>>]
    /\ lastOp' = [NoOp EXCEPT !.type = "ping", !.sess = s]
    /\ UNCHANGED <<conn, timer, muted, lastToggle, ttsConfigured, chartHistory,
                   now, pending, nextReq, asksLeft, loop>>

OnPingCharting(s) ==
    /\ sent' = Send(s, PongMsg)
    /\ chartHistory' =
           updateChartData(chartHistory, generateTelemetry(now), now)
    /\ lastOp' = [NoOp EXCEPT !.type = "ping", !.sess = s]
    /\ UNCHANGED <<conn, timer, muted, lastToggle, ttsConfigured, now,
                   pending, nextReq, asksLeft, loop>>

OnPing(s) ==
    /\ sent' = Send(s, PongMsg)
    /\ lastOp' = [NoOp EXCEPT !.type = "ping", !.sess = s]
    /\ UNCHANGED <<conn, timer, muted, lastToggle, ttsConfigured, chartHistory,
                   now, pending, nextReq, asksLeft, loop>>

\* data.type === "ask_ai" / "ask_question": the snapshot is taken, then the
\* handler is suspended at await analyzeClusterData / await askQuestion
OnAsk(s, kind, withAudio) ==
    /\ asksLeft > 0
    /\ asksLeft' = asksLeft - 1
    /\ nextReq' = nextReq + 1
    /\ pending' = pending \cup
                    { [id |-> nextReq', sess |-> s, kind |-> kind,
                       withAudio |-> withAudio, stage |-> "analysis"] }
    /\ loop' = Await
    /\ sent' = NoneSent
    /\ lastOp' = [type |-> kind, sess |-> s, req |-> nextReq']
    /\ UNCHANGED <<conn, timer, muted, lastToggle, ttsConfigured, chartHistory,
                   now>>

\* the message event of an open socket: a message handled in one go
ReceiveControl(s) ==
    /\ loop = "idle"
    /\ conn[s] = "open"
    /\ \/ OnMalformed(s)
       \/ OnUnknown(s)
       \/ OnMute(s)
       \/ OnUnmute(s)
       \/ OnGetMuteState(s)
       \/ OnPing(s)
    /\ UNCHANGED smVars
    /\ UNCHANGED synVars
    /\ UNCHANGED hookVars
    /\ UNCHANGED chartVars

\* the message event of an open socket: a payload that is ignored
ReceiveIgnored(s) ==
    /\ loop = "idle"
    /\ conn[s] = "open"
    /\ \/ OnMalformed(s)
       \/ OnUnknown(s)
    /\ UNCHANGED smVars
    /\ UNCHANGED synVars
    /\ UNCHANGED hookVars
    /\ UNCHANGED chartVars

\* the message event of an open socket: a request to the Analysis Gateway
ReceiveAsk(s) ==
    /\ loop = "idle"
    /\ conn[s] = "open"
    /\ \E kind \in AskKinds, withAudio \in BOOLEAN : OnAsk(s, kind, withAudio)
    /\ UNCHANGED smVars
    /\ UNCHANGED synVars
    /\ UNCHANGED hookVars
    /\ UNCHANGED chartVars

\* if (process.env.ELEVENLABS_API_KEY && data.withAudio)
WantsAudio(r) == ttsConfigured /\ r.withAudio

\* the event loop may run the continuation of request r
MayResume(r) == loop = "idle" \/ loop = "busy"

\* catch (error) of the ask handlers: ws.send of an ai_error on the socket
\* of the handler
OnCallErrorSilent(r) == NoneSent

OnCallError(r) == Send(r.sess, ErrorMsg(r))

\* analyzeClusterData / askQuestion settled for request r
GatewayDone(r, ok) ==
    /\ r \in pending
    /\ r.stage = "analysis"
    /\ MayResume(r)
    /\ IF ~ok
       THEN \* catch (error): ws.send ai_error
            /\ pending' = pending \ {r}
            /\ sent' = OnCallError(r)
            /\ loop' = "idle"
       ELSE IF WantsAudio(r)
       THEN \* await textToSpeech(...)
            /\ pending' = (pending \ {r}) \cup {[r EXCEPT !.stage = "tts"]}
            /\ sent' = NoneSent
            /\ loop' = Await
       ELSE \* audioBase64 stays null
            /\ pending' = pending \ {r}
            /\ sent' = Send(r.sess, ReplyMsg(r, FALSE))
            /\ loop' = "idle"
    /\ lastOp' = [type |-> "gatewayDone", sess |-> r.sess, req |-> r.id]
    /\ UNCHANGED <<conn, timer, muted, lastToggle, ttsConfigured, chartHistory,
                   now, nextReq, asksLeft>>
    /\ UNCHANGED smVars
    /\ UNCHANGED synVars
    /\ UNCHANGED hookVars
    /\ UNCHANGED chartVars

\* textToSpeech settled for request r
TtsDone(r, ok) ==
    /\ r \in pending
    /\ r.stage = "tts"
    /\ MayResume(r)
    /\ pending' = pending \ {r}
    /\ sent' = IF ok THEN Send(r.sess, ReplyMsg(r, TRUE)) ELSE OnCallError(r)
    /\ loop' = "idle"
    /\ lastOp' = [type |-> "ttsDone", sess |-> r.sess, req |-> r.id]
    /\ UNCHANGED <<conn, timer, muted, lastToggle, ttsConfigured, chartHistory,
                   now, nextReq, asksLeft>>
    /\ UNCHANGED smVars
    /\ UNCHANGED synVars
    /\ UNCHANGED hookVars
    /\ UNCHANGED chartVars

(***************************************************************************)
(* useTelemetry: the client hook                                           *)
(*                                                                         *)
(* A socket is connecting, open, closing (close() was called or the        *)
(* closing handshake began), aborting (close() was called while it was     *)
(* connecting; an open event that was already queued may still be          *)
(* delivered), failed (its error event was delivered, its close event is   *)
(* still to come) or closed.  Each socket and each timeout                 *)
(* belongs to the effect whose closure created it.  wsUrl is taken to be a *)
(* well-formed URL, so that new WebSocket(wsUrl) does not throw.           *)
(***************************************************************************)
\* sockets the hook may create in one run
MaxSockets == 7
\* effects the hook may run (the first mount and the URL changes)
MaxEffects == 2

BackoffBase == 1000
BackoffCap == 30000

SocketIds == 1..MaxSockets
NoSocket == [state |-> "none", effect |-> 0]
Created == {k \in SocketIds : sockets[k].state # "none"}

HookInit ==
    /\ effect = 0
    /\ cleaned = {}
    /\ hookStatus = "connecting"
    /\ telemetry = 0
    /\ sockets = [k \in SocketIds |-> NoSocket]
    /\ wsRef = 0
    /\ timeouts = {}
    /\ reconnectTimeoutRef = 0
    /\ reconnectAttempts = 0
    /\ closesSinceOpen = 0

\* Math.min(1000 * Math.pow(2, reconnectAttempts.current), 30000)
reconnectDelayUncapped(attempts) == BackoffBase * 2^attempts

reconnectDelay(attempts) == Min(BackoffBase * 2^attempts, BackoffCap)

\* ws.onopen of a socket of effect e: reconnectAttempts.current = 0
OnOpenKeepAttempts(attempts) == attempts

OnOpenAttempts(attempts) == 0

\* let isCleanedUp = false, of the closure of effect e
isCleanedUpNever(e) == FALSE

isCleanedUp(e) == e \in cleaned

\* connect() run in the closure of effect e
connect(e) ==
    IF isCleanedUp(e)
    THEN UNCHANGED <<hookStatus, sockets, wsRef>>
    ELSE LET k == Cardinality(Created) + 1 IN
         /\ hookStatus' = "connecting"
         /\ sockets' = [sockets EXCEPT ![k] = [state |-> "connecting",
                                                effect |-> e]]
         /\ wsRef' = k

\* the effect runs: on mount, and again after the cleanup that a change of
\* wsUrl causes
RunEffect ==
    /\ effect < MaxEffects
    /\ effect = 0 \/ effect \in cleaned
    /\ Cardinality(Created) < MaxSockets
    /\ effect' = effect + 1
    /\ connect(effect')
    /\ lastOp' = [NoOp EXCEPT !.type = "effect"]
    /\ UNCHANGED <<cleaned, telemetry, timeouts, reconnectTimeoutRef,
                   reconnectAttempts, closesSinceOpen>>
    /\ UNCHANGED smVars
    /\ UNCHANGED sessVars
    /\ UNCHANGED synVars
    /\ UNCHANGED chartVars

\* the cleanup function of the running effect: unmount or a change of wsUrl
Cleanup ==
    /\ effect > 0
    /\ effect \notin cleaned
    /\ cleaned' = cleaned \cup {effect}
    /\ IF reconnectTimeoutRef # 0
       THEN /\ timeouts' = {t \in timeouts : t.id # reconnectTimeoutRef}
            /\ reconnectTimeoutRef' = 0
       ELSE UNCHANGED <<timeouts, reconnectTimeoutRef>>
    /\ IF wsRef # 0
       THEN /\ sockets' = [sockets EXCEPT ![wsRef].state =
                              IF @ = "connecting" THEN "aborting"
                              ELSE IF @ = "open" THEN "closing"
                              ELSE @]
            /\ wsRef' = 0
       ELSE UNCHANGED <<sockets, wsRef>>
    /\ lastOp' = [NoOp EXCEPT !.type = "cleanup"]
    /\ UNCHANGED <<effect, hookStatus, telemetry, reconnectAttempts,
                   closesSinceOpen>>
    /\ UNCHANGED smVars
    /\ UNCHANGED sessVars
    /\ UNCHANGED synVars
    /\ UNCHANGED chartVars

\* the open event of socket k
SocketOpen(k) ==
    /\ sockets[k].state \in {"connecting", "aborting"}
    /\ IF isCleanedUp(sockets[k].effect)
       THEN \* ws.close(); return
            /\ sockets' = [sockets EXCEPT ![k].state = "closing"]
            /\ UNCHANGED <<hookStatus, reconnectAttempts, closesSinceOpen>>
       ELSE /\ sockets' = [sockets EXCEPT ![k].state =
                              IF @ = "aborting" THEN "closing" ELSE "open"]
            /\ hookStatus' = "connected"
            /\ reconnectAttempts' = OnOpenAttempts(reconnectAttempts)
            /\ closesSinceOpen' = 0
    /\ lastOp' = [NoOp EXCEPT !.type = "open", !.sess = k]
    /\ UNCHANGED <<effect, cleaned, telemetry, wsRef, timeouts,
                   reconnectTimeoutRef>>
    /\ UNCHANGED smVars
    /\ UNCHANGED sessVars
    /\ UNCHANGED synVars
    /\ UNCHANGED chartVars

\* a message event of socket k; isTelemetry: it parses to a telemetry
\* message with a payload
SocketMessage(k, isTelemetry) ==
    /\ sockets[k].state \in {"open", "closing"}
    /\ telemetry' = IF ~isCleanedUp(sockets[k].effect) /\ isTelemetry
                    THEN k ELSE telemetry
    /\ lastOp' = [NoOp EXCEPT !.type = "message", !.sess = k]
    /\ UNCHANGED <<effect, cleaned, hookStatus, sockets, wsRef, timeouts,
                   reconnectTimeoutRef, reconnectAttempts, closesSinceOpen>>
    /\ UNCHANGED smVars
    /\ UNCHANGED sessVars
    /\ UNCHANGED synVars
    /\ UNCHANGED chartVars

\* the error event of socket k: the connection failed, its close event
\* follows
SocketError(k) ==
    /\ sockets[k].state \in {"connecting", "open", "closing", "aborting"}
    /\ sockets' = [sockets EXCEPT ![k].state = "failed"]
    /\ hookStatus' = "error"
    /\ lastOp' = [NoOp EXCEPT !.type = "error", !.sess = k]
    /\ UNCHANGED <<effect, cleaned, telemetry, wsRef, timeouts,
                   reconnectTimeoutRef, reconnectAttempts, closesSinceOpen>>
    /\ UNCHANGED smVars
    /\ UNCHANGED sessVars
    /\ UNCHANGED synVars
    /\ UNCHANGED chartVars

\* the close event of socket k
SocketClose(k) ==
    /\ sockets[k].state \in {"open", "closing", "failed", "aborting"}
    /\ sockets' = [sockets EXCEPT ![k].state = "closed"]
    /\ IF isCleanedUp(sockets[k].effect)
       THEN UNCHANGED <<hookStatus, wsRef, timeouts, reconnectTimeoutRef,
                        reconnectAttempts, closesSinceOpen>>
       ELSE LET delay == reconnectDelay(reconnectAttempts)
                id == k
            IN  /\ hookStatus' = "disconnected"
                /\ wsRef' = 0
                /\ reconnectAttempts' = reconnectAttempts + 1
                /\ timeouts' = timeouts \cup
                                 {[id |-> id, delay |-> delay,
                                   effect |-> sockets[k].effect]}
                /\ reconnectTimeoutRef' = id
                /\ closesSinceOpen' = closesSinceOpen + 1
    /\ lastOp' = [NoOp EXCEPT !.type = "socketClose", !.sess = k]
    /\ UNCHANGED <<effect, cleaned, telemetry>>
    /\ UNCHANGED smVars
    /\ UNCHANGED sessVars
    /\ UNCHANGED synVars
    /\ UNCHANGED chartVars

\* the reconnect timeout t fires: connect()
TimeoutFires(t) ==
    /\ t \in timeouts
    /\ Cardinality(Created) < MaxSockets
    /\ timeouts' = timeouts \ {t}
    /\ connect(t.effect)
    /\ lastOp' = [NoOp EXCEPT !.type = "timeout", !.sess = t.id]
    /\ UNCHANGED <<effect, cleaned, telemetry, reconnectTimeoutRef,
                   reconnectAttempts, closesSinceOpen>>
    /\ UNCHANGED smVars
    /\ UNCHANGED sessVars
    /\ UNCHANGED synVars
    /\ UNCHANGED chartVars

(***************************************************************************)
(* webSocket.js: state at process start                                    *)
(***************************************************************************)

\* the chart history after the first n firings of push timers since process
\* start, n <= ChartCapacity + 1: nothing has been evicted yet
ChartAfter(n) ==
    LET Sample(i) == generateTelemetry((i - 1) % ClockPeriod) IN
    [labels      |-> [i \in 1..n |-> (i - 1) % ClockPeriod],
     gpuData     |-> [i \in 1..n |-> AvgGpu10(Sample(i))],
     coolingData |-> [i \in 1..n |-> AvgCooling10(Sample(i))],
     energyData  |-> [i \in 1..n |-> EnergySavings10(Sample(i))]]

\* no generateTelemetry() call is being looked at
SynInit ==
    /\ snapshot = NoSnapshot
    /\ lastStats = NoStats
    /\ prevStats = NoStats
    /\ seed = NoSeed
    /\ probe = NoProbe

SessInit ==
    /\ muted = FALSE
    /\ lastToggle = [sess |-> 0, type |-> "none"]
    /\ ttsConfigured \in BOOLEAN
    /\ pending = {}
    /\ nextReq = 0
    /\ loop = "idle"
    /\ sent = [s \in Sessions |-> <<>>]

SMInit ==
    /\ currentState = InitialState
    /\ nextSpikeIn \in CountdownDraws
    /\ hist = SeedHist(nextSpikeIn)
    /\ copyObj = NoObj
    /\ held = "none"
    /\ observed = NoObj

\* the spike states: normal, a spike of each row of the table right after
\* it was triggered, and a manual spike right after the trigger
SpikeStates ==
    {InitialState}
        \cup {SpikeTriggered(InitialState, i) : i \in ProfileDraws}
        \cup {simulateLoadSpike(InitialState)}

\* the state machine in spike state cs, the countdown seeded with the
\* smallest value
SMAt(cs) ==
    LET c == CountdownMin * Resolution IN
    /\ currentState = cs
    /\ copyObj = NoObj
    /\ held = "none"
    /\ observed = NoObj
    /\ IF cs.status = "normal"
       THEN nextSpikeIn = c /\ hist = SeedHist(c)
       ELSE IF cs.duration = ManualDuration
       THEN /\ nextSpikeIn = c
            /\ hist = [SeedHist(c) EXCEPT !.clean = FALSE,
                                          !.d0 = ManualDuration]
       ELSE /\ nextSpikeIn = 0
            /\ hist = [SeedHist(c) EXCEPT !.n = CountdownMin,
                                          !.d0 = cs.duration]

\* the process right after start
Init ==
    /\ SMInit /\ SessInit
    /\ asksLeft = MaxAsks
    /\ conn = [s \in Sessions |-> "none"]
    /\ timer = [s \in Sessions |-> FALSE]
    /\ chartHistory = EmptyChart
    /\ now = 0
    /\ lastOp = NoOp
    /\ SynInit
    /\ HookInit
    /\ ChartInit

\* the process in service: the sessions are connected and their timers have
\* fired ChartCapacity + 1 times in all, no message has been received yet
InService ==
    /\ SMAt(InitialState) /\ SessInit
    /\ conn = [s \in Sessions |-> "open"]
    /\ timer = [s \in Sessions |-> TRUE]
    /\ chartHistory = ChartAfter(ChartCapacity + 1)
    /\ now = (ChartCapacity + 1) % ClockPeriod
    /\ ttsConfigured
    /\ lastOp = NoOp
    /\ SynInit
    /\ HookInit
    /\ handed = ChartPayload(chartHistory)
    /\ handedSeen = ChartPayload(ChartAfter(ChartCapacity))

InitInService == InService /\ asksLeft = MaxAsks

\* the same, with clients that send one request more
InitInServiceMore == InService /\ asksLeft = MaxAsks + 1

InitSM == Init /\ ~ttsConfigured

\* the state machine with its tick driver and the manual trigger route
NextSM ==
    \/ updateStateMachine
    \/ SimulateRoute

\* the broadcast engine from process start: connections, push timers and
\* the control messages that are handled in one go
Next ==
    \/ \E s \in Sessions : Connect(s)
    \/ \E s \in Sessions : PeerGone(s)
    \/ \E s \in Sessions : CloseEvent(s)
    \/ \E s \in Sessions : Push(s)
    \/ \E s \in Sessions : ReceiveControl(s)

Spec == Init /\ [][Next]_vars

\* the broadcast engine in service next to the manual trigger route: push
\* timers and the control messages
NextCtl ==
    \/ \E s \in Sessions : CloseEvent(s)
    \/ \E s \in Sessions : Push(s)
    \/ \E s \in Sessions : ReceiveControl(s)
    \/ SimulateRoute

SpecCtl == InitInService /\ [][NextCtl]_vars

\* the broadcast engine in service: push timers and the requests to the
\* Analysis Gateway
NextAsk ==
    \/ \E s \in Sessions : CloseEvent(s)
    \/ \E s \in Sessions : Push(s)
    \/ \E s \in Sessions : ReceiveAsk(s)
    \/ \E r \in pending, ok \in BOOLEAN : GatewayDone(r, ok)
    \/ \E r \in pending, ok \in BOOLEAN : TtsDone(r, ok)

SpecAsk == InitInService /\ [][NextAsk]_vars

\* the broadcast engine in service with every kind of message
NextFull ==
    \/ \E s \in Sessions : CloseEvent(s)
    \/ \E s \in Sessions : Push(s)
    \/ \E s \in Sessions : ReceiveControl(s)
    \/ \E s \in Sessions : ReceiveAsk(s)
    \/ \E r \in pending, ok \in BOOLEAN : GatewayDone(r, ok)
    \/ \E r \in pending, ok \in BOOLEAN : TtsDone(r, ok)

SpecFull == InitInServiceMore /\ [][NextFull]_vars

\* the broadcast engine in service with sessions that stay open: push
\* timers and every kind of message
NextMsg ==
    \/ \E s \in Sessions : Push(s)
    \/ \E s \in Sessions : ReceiveControl(s)
    \/ \E s \in Sessions : ReceiveAsk(s)
    \/ \E r \in pending, ok \in BOOLEAN : GatewayDone(r, ok)
    \/ \E r \in pending, ok \in BOOLEAN : TtsDone(r, ok)

SpecMsg == InitInService /\ [][NextMsg]_vars

\* the broadcast engine in service next to the manual trigger route: closes,
\* ignored messages and gateway calls that may fail
NextIso ==
    \/ \E s \in Sessions : CloseEvent(s)
    \/ \E s \in Sessions : Push(s)
    \/ \E s \in Sessions : ReceiveIgnored(s)
    \/ \E s \in Sessions : ReceiveAsk(s)
    \/ \E r \in pending, ok \in BOOLEAN : GatewayDone(r, ok)
    \/ \E r \in pending, ok \in BOOLEAN : TtsDone(r, ok)
    \/ SimulateRoute

SpecIso == InitInService /\ [][NextIso]_vars

SpecSM == InitSM /\ [][NextSM]_vars

\* GET /api/simulate-load-spike requested while no spike is running
TriggerWhenNormal ==
    /\ currentState.status = "normal"
    /\ SimulateRoute

\* the state machine with no manual trigger after a spike has started
NextSMQuiet ==
    \/ updateStateMachine
    \/ TriggerWhenNormal

\* setInterval(updateStateMachine, 2000) keeps firing while the process
\* runs: the tick is weakly fair
SpecSMFair ==
    InitSM /\ [][NextSMQuiet]_vars /\ WF_vars(updateStateMachine)

InitSynth ==
    /\ \E cs \in SpikeStates : SMAt(cs)
    /\ SessInit
    /\ ~ttsConfigured
    /\ asksLeft = MaxAsks
    /\ conn = [s \in Sessions |-> "none"]
    /\ timer = [s \in Sessions |-> FALSE]
    /\ chartHistory = EmptyChart
    /\ now = 0
    /\ lastOp = NoOp
    /\ SynInit
    /\ HookInit
    /\ ChartInit

\* snapshots synthesized in each spike state
NextSynth ==
    \/ Synthesize
    \/ Discard

SpecSynth == InitSynth /\ [][NextSynth]_vars

\* one snapshot synthesized in each spike state and added to the chart
NextChart ==
    \/ Synthesize
    \/ ChartSnapshot

SpecChart == InitSynth /\ [][NextChart]_vars

InitStats ==
    /\ SMAt(InitialState) /\ SessInit
    /\ ~ttsConfigured
    /\ asksLeft = MaxAsks
    /\ conn = [s \in Sessions |-> "none"]
    /\ timer = [s \in Sessions |-> FALSE]
    /\ chartHistory = EmptyChart
    /\ now = 0
    /\ lastOp = NoOp
    /\ SynInit
    /\ HookInit
    /\ ChartInit

\* calculateStats called on snapshots, next to the manual trigger route
NextStats ==
    \/ Synthesize
    \/ Aggregate
    \/ Discard
    \/ SimulateRoute

SpecStats == InitStats /\ [][NextStats]_vars

\* the draws the payloads are built from
PayloadSeeds ==
    {rnd \in RandomSources :
        /\ rnd.tieUp /\ rnd.a.adj = 4 /\ rnd.a.temp = -20
        /\ \/ rnd.m = 1 /\ rnd.n = 1
           \/ rnd.m = ClusterCount /\ rnd.n = NodesPerCluster}

\* the first session is connected and its interval has not fired yet;
\* Math.random() is fixed to one sequence of draws, in status normal or in
\* a manual spike
InitPayload ==
    /\ \E cs \in {InitialState, simulateLoadSpike(InitialState)} : SMAt(cs)
    /\ SessInit
    /\ ~ttsConfigured
    /\ asksLeft = MaxAsks
    /\ conn = [s \in Sessions |-> IF s = 1 THEN "open" ELSE "none"]
    /\ timer = [s \in Sessions |-> s = 1]
    /\ chartHistory = EmptyChart
    /\ now = 0
    /\ lastOp = NoOp
    /\ snapshot = NoSnapshot
    /\ lastStats = NoStats
    /\ prevStats = NoStats
    /\ seed \in PayloadSeeds
    /\ probe = NoProbe
    /\ HookInit
    /\ ChartInit

\* the push timers with the whole payload
NextPayload == \E s \in Sessions : PushSnapshot(s)

SpecPayload == InitPayload /\ [][NextPayload]_vars

\* the client hook before its first effect runs
InitHook == InitStats

\* the client hook: its effects, the events of its sockets and its timeouts
NextHook ==
    \/ RunEffect
    \/ Cleanup
    \/ \E k \in SocketIds : SocketOpen(k)
    \/ \E k \in SocketIds, isTelemetry \in BOOLEAN :
           SocketMessage(k, isTelemetry)
    \/ \E k \in SocketIds : SocketError(k)
    \/ \E k \in SocketIds : SocketClose(k)
    \/ \E t \in timeouts : TimeoutFires(t)

SpecHook == InitHook /\ [][NextHook]_vars

\* the power computation applied to pairs of online nodes
NextPower == MeasurePair

SpecPower == InitStats /\ [][NextPower]_vars

\* Math.random() fixed to one sequence of draws, status normal
InitSeeded ==
    /\ SMAt(InitialState) /\ SessInit
    /\ ~ttsConfigured
    /\ asksLeft = MaxAsks
    /\ conn = [s \in Sessions |-> "none"]
    /\ timer = [s \in Sessions |-> FALSE]
    /\ chartHistory = EmptyChart
    /\ now = 0
    /\ lastOp = NoOp
    /\ snapshot = NoSnapshot
    /\ lastStats = NoStats
    /\ prevStats = NoStats
    /\ seed \in RandomSources
    /\ probe = NoProbe
    /\ HookInit
    /\ ChartInit

\* generateTelemetry() called with the same draws before and after the
\* manual trigger
NextSeeded ==
    \/ Synthesize
    \/ Discard
    \/ SimulateRoute

SpecSeeded == InitSeeded /\ [][NextSeeded]_vars

\* the sequences of draws that treat all clusters alike
RegionalSeeds == {rnd \in RandomSources : rnd.m = ClusterCount}

\* Math.random() fixed to one sequence of draws, in each spike state
InitRegional ==
    /\ \E cs \in SpikeStates : SMAt(cs)
    /\ SessInit
    /\ ~ttsConfigured
    /\ asksLeft = MaxAsks
    /\ conn = [s \in Sessions |-> "none"]
    /\ timer = [s \in Sessions |-> FALSE]
    /\ chartHistory = EmptyChart
    /\ now = 0
    /\ lastOp = NoOp
    /\ snapshot = NoSnapshot
    /\ lastStats = NoStats
    /\ prevStats = NoStats
    /\ seed \in RegionalSeeds
    /\ probe = NoProbe
    /\ HookInit
    /\ ChartInit

\* snapshots synthesized from known draws in each spike state
SpecRegional == InitRegional /\ [][NextSynth]_vars

\* the same, with a caller of getClusterState that keeps what it got
NextCopy ==
    \/ updateStateMachine
    \/ SimulateRoute
    \/ GetClusterState
    \/ CallerWrite
    \/ CallerDrop

SpecCopy == InitSM /\ [][NextCopy]_vars

(***************************************************************************)
(* Properties of the load-spike state machine                              *)
(***************************************************************************)

\* C4: in every reachable state, status = normal implies
\* loadMultiplier = 1.0 and duration = 0.
C4_NormalImpliesReset ==
    currentState.status = "normal" =>
        /\ currentState.loadMultiplier = NormalMultiplier
        /\ currentState.duration = 0

\* a manually triggered spike has run out and the state is normal again
C4_Witness ==
    /\ currentState.status = "normal"
    /\ hist.ended
    /\ hist.d0 = ManualDuration

\* the running spike is a row of the table that has been counted down m times
SpikeFromTable ==
    \E i \in ProfileDraws :
        /\ currentState.region = spikeProfiles[i].region
        /\ currentState.loadMultiplier = spikeProfiles[i].multiplier
        /\ hist.d0 = spikeProfiles[i].duration
        /\ currentState.duration = hist.d0 - hist.m

\* what C5 says of a spike once it is running and once it has ended
SpikeRunsItsDuration ==
    /\ (currentState.status = "spike" /\ hist.clean) =>
            (SpikeFromTable /\ hist.m < hist.d0)
    /\ hist.ended =>
            /\ currentState.status = "normal"
            /\ currentState.loadMultiplier = NormalMultiplier
            /\ hist.m = hist.d0

\* C5 as stated: with countdown c and no manual trigger the status is normal
\* for the first c-1 ticks, spike on exactly the c-th tick with a row of the
\* table, and normal again after exactly duration further ticks.
C5_SpikeOnExactlyCthTick ==
    /\ (currentState.status = "normal" /\ hist.clean) =>
            hist.n * Resolution < hist.c0
    /\ (currentState.status = "spike" /\ hist.clean) =>
            hist.n * Resolution = hist.c0
    /\ SpikeRunsItsDuration

\* C5 amended: the countdown c is a real number in [120, 300); the spike
\* starts on the tick numbered ceil(c), the first tick n with n >= c.
C5_SpikeOnCeilCthTick ==
    /\ (currentState.status = "normal" /\ hist.clean) =>
            hist.n * Resolution < hist.c0
    /\ (currentState.status = "spike" /\ hist.clean) =>
            /\ hist.c0 <= hist.n * Resolution
            /\ hist.n * Resolution < hist.c0 + Resolution
    /\ SpikeRunsItsDuration

\* an automatic spike that started from a fractional countdown is on its
\* last tick
C5_Witness ==
    /\ currentState.status = "spike"
    /\ hist.clean
    /\ hist.c0 % Resolution # 0
    /\ hist.m = hist.d0 - 1

\* C6: the manual trigger, in any state, leaves status = spike,
\* multiplier = 1.5, region = global, duration = 10 at once.
C6_ManualTriggerState ==
    lastOp.type = "simulateLoadSpike" =>
        currentState = [status |-> "spike",
                        loadMultiplier |-> ManualMultiplier,
                        region |-> "global",
                        duration |-> ManualDuration]

\* the trigger came while an automatic spike was running
C6_Witness ==
    /\ lastOp.type = "simulateLoadSpike"
    /\ nextSpikeIn <= 0

\* C7: getClusterState returns a copy: a caller's write to the returned
\* value leaves the shared state unchanged, and the returned value does not
\* change when ticks or manual triggers change the shared state.
C7_ReturnsCopy ==
    /\ [](held # "none" => Deref(held) = observed)
    /\ [][lastOp'.type = "callerWrite" => currentState' = currentState]_vars

\* the caller wrote to its value, and the shared state was ticked afterwards
C7_Witness ==
    /\ held # "none"
    /\ observed.status = "tampered"
    /\ lastOp.type = "tick"
    /\ currentState.status = "spike"

(***************************************************************************)
(* Properties of the broadcast engine                                      *)
(***************************************************************************)
SeriesOf(h) == <<h.labels, h.gpuData, h.coolingData, h.energyData>>

\* the labels are consecutive clock readings, the last one the latest reading
RecentOldestFirst(labels) ==
    /\ \A i \in 1..(Len(labels) - 1) :
           labels[i + 1] = (labels[i] + 1) % ClockPeriod
    /\ Len(labels) > 0 => (labels[Len(labels)] + 1) % ClockPeriod = now

TelemetrySent(s) ==
    { sent[s][i] : i \in { j \in 1..Len(sent[s]) : sent[s][j].type = "telemetry" } }

\* C1: the chart history never holds more than 20 entries per series; once
\* full it holds the 20 most recent entries, oldest first, and the chart
\* returned to a session is that history.
C1_ChartWithinCapacity ==
    /\ \A i \in 1..4 : Len(SeriesOf(chartHistory)[i]) <= ChartCapacity
    /\ RecentOldestFirst(chartHistory.labels)
    /\ \A s \in Sessions : \A m \in TelemetrySent(s) :
           /\ m.chart = ChartPayload(chartHistory)
           /\ Len(m.chart.labels) <= ChartCapacity

\* C2: when an open session sends mute (unmute), every open session
\* receives mute-state with muted = true (false).
C2_MuteBroadcastToAll ==
    lastOp.type \in {"mute", "unmute"} =>
        \A t \in Sessions :
            conn[t] = "open" =>
                sent[t] = << MuteStateMsg(lastOp.type = "mute") >>

\* C3: once the close event of a session has been handled its timer is
\* cancelled: no push runs for it, nothing is appended on its behalf and no
\* telemetry is sent to it, whatever the other sessions' timers do.
C3_NoPushAfterClose ==
    \A s \in Sessions :
        conn[s] = "closed" =>
            /\ ~timer[s]
            /\ ~(lastOp.type = "push" /\ lastOp.sess = s)
            /\ TelemetrySent(s) = {}

\* a session is closed and the timer of another one has just fired
C3_Witness ==
    \E s, t \in Sessions :
        /\ s # t
        /\ conn[s] = "closed"
        /\ lastOp = [NoOp EXCEPT !.type = "push", !.sess = t]
        /\ TelemetrySent(t) # {}
        /\ Len(chartHistory.labels) >= 2

RepliesSent(s) ==
    { sent[s][i] : i \in { j \in 1..Len(sent[s]) :
                             sent[s][j].type \in {"ai_response", "ai_answer"} } }

\* C8: while the mute flag is set no ai_response or ai_answer carries audio.
C8_NoAudioWhileMuted ==
    muted => \A s \in Sessions : \A m \in RepliesSent(s) : ~m.audio

MessageTypes ==
    {"malformed", "unknown", "mute", "unmute", "get-mute-state", "ping",
     "ask_ai", "ask_question"}

\* C9: the messages of one session are handled one after the other: no
\* handler starts while an earlier one of the session is suspended, and the
\* replies to two requests of a session are sent in request order.
C9_SequentialPerSession ==
    /\ \A r1, r2 \in pending : r1.sess = r2.sess => r1 = r2
    /\ lastOp.type \in MessageTypes =>
           \A r \in pending : r.sess = lastOp.sess => r.id = lastOp.req
    /\ lastOp.type \in {"gatewayDone", "ttsDone"} =>
           \A r \in pending : r.sess = lastOp.sess => r.id >= lastOp.req

\* C10: while a gateway or speech call is in flight, the push timer of
\* every session whose interval is set can still fire.
C10_PushesNotDelayed ==
    pending # {} => \A t \in Sessions : timer[t] => PushReady(t)

\* a push ran for the session whose speech call is in flight
C10_Witness ==
    \E r \in pending :
        /\ r.stage = "tts"
        /\ lastOp = [NoOp EXCEPT !.type = "push", !.sess = r.sess]
        /\ TelemetrySent(r.sess) # {}

\* a gateway or speech call of a request of session s has just failed
CallFailedOn(s) ==
    /\ lastOp'.type \in {"gatewayDone", "ttsDone"}
    /\ \E r \in pending :
           r.sess = s /\ (GatewayDone(r, FALSE) \/ TtsDone(r, FALSE))

\* the step is the close of session s, a malformed message on it, or a
\* failed gateway or speech call of one of its requests
FailureOn(s) ==
    \/ lastOp' = [NoOp EXCEPT !.type = "close", !.sess = s]
    \/ lastOp' = [NoOp EXCEPT !.type = "malformed", !.sess = s]
    \/ CallFailedOn(s)

\* C11: the close of a session, a malformed message on it or a gateway
\* failure on it leaves every other session as it was, with its push timer
\* still able to fire, and leaves the LoadSpikeState unchanged.
C11_SessionsIsolated ==
    [][\A s \in Sessions :
          FailureOn(s) =>
              /\ \A t \in Sessions \ {s} :
                     /\ conn'[t] = conn[t]
                     /\ timer'[t] = timer[t]
                     /\ PushReady(t) => PushReady(t)'
              /\ currentState' = currentState]_vars

\* during a manual spike a call of one session has failed while the other
\* session is open with its timer set
C11_Witness ==
    \E s, t \in Sessions :
        /\ s # t
        /\ lastOp.type = "gatewayDone" /\ lastOp.sess = s
        /\ Len(sent[s]) = 1 /\ sent[s][1].type = "ai_error"
        /\ conn[t] = "open" /\ PushReady(t)
        /\ currentState.status = "spike"

\* C12: when the gateway or speech call of a request settles, with success
\* or failure, after the requesting session has closed, nothing is delivered
\* to any session, the handler ends (or goes on to the speech call) and no
\* connection or timer is disturbed.
C12_LateResultDiscarded ==
    [][\A r \in pending, ok \in BOOLEAN :
          (/\ lastOp'.type \in {"gatewayDone", "ttsDone"}
           /\ conn[r.sess] = "closed"
           /\ (GatewayDone(r, ok) \/ TtsDone(r, ok))) =>
              /\ sent' = NoneSent
              /\ pending' \in {pending \ {r},
                              (pending \ {r}) \cup {[r EXCEPT !.stage = "tts"]}}
              /\ loop' = "idle"
              /\ conn' = conn
              /\ timer' = timer]_vars

\* the speech call of a request settled after its session had closed
C12_Witness ==
    /\ lastOp.type = "ttsDone"
    /\ conn[lastOp.sess] = "closed"
    /\ \A r \in pending : r.id # lastOp.req
    /\ sent = NoneSent

\* C13: a telemetry send that fails because the peer is gone is treated as
\* the close of the session: once a push has run for a session whose socket
\* is no longer open, the session is closed and its timer is cancelled, so
\* that no further send to it is attempted.
C13_SendFailureClosesSession ==
    (lastOp.type = "push" /\ conn[lastOp.sess] # "open") =>
        /\ conn[lastOp.sess] = "closed"
        /\ ~timer[lastOp.sess]

\* C14: when the gateway call or the speech call of a request fails and the
\* requesting session is open, that session receives exactly one ai_error,
\* no other session receives anything, and the requesting session stays
\* open with its push timer set and able to fire.
C14_FailureToRequesterOnly ==
    [][\A r \in pending :
          (/\ lastOp'.type \in {"gatewayDone", "ttsDone"}
           /\ conn[r.sess] = "open"
           /\ (GatewayDone(r, FALSE) \/ TtsDone(r, FALSE))) =>
              /\ Len(sent'[r.sess]) = 1
              /\ sent'[r.sess][1].type = "ai_error"
              /\ sent'[r.sess][1].req = r.id
              /\ \A t \in Sessions \ {r.sess} : sent'[t] = <<>>
              /\ conn'[r.sess] = "open"
              /\ timer'[r.sess]
              /\ PushReady(r.sess)']_vars

\* the speech call of a request failed and its open session got the ai_error
C14_Witness ==
    /\ lastOp.type = "ttsDone"
    /\ conn[lastOp.sess] = "open"
    /\ timer[lastOp.sess]
    /\ Len(sent[lastOp.sess]) = 1
    /\ sent[lastOp.sess][1].type = "ai_error"
    /\ sent[lastOp.sess][1].req = lastOp.req

\* C15: a message that cannot be parsed and a message of no known type
\* cause no outbound message, change neither the mute flag nor the chart
\* history nor the spike state, and leave the session open with its push
\* timer set and able to fire.
C15_IgnoredMessagesNoEffect ==
    [][lastOp'.type \in {"malformed", "unknown"} =>
          /\ sent' = NoneSent
          /\ muted' = muted
          /\ chartHistory' = chartHistory
          /\ currentState' = currentState
          /\ conn' = conn
          /\ conn'[lastOp'.sess] = "open"
          /\ timer' = timer
          /\ \A s \in Sessions : (lastOp'.sess = s) => PushReady(s)']_vars

\* a malformed message arrived while the flag was set, the chart had entries
\* and a spike was running
C15_Witness ==
    /\ lastOp.type = "malformed"
    /\ muted
    /\ Len(chartHistory.labels) > 0
    /\ currentState.status = "spike"
    /\ conn[lastOp.sess] = "open"
    /\ timer[lastOp.sess]

\* C16: the mute flag is process-wide: it is what the last mute or unmute
\* message of any session made it, a get-mute-state request of any session
\* is answered with that value, to the requester only, and does not change
\* the flag.
C16_MuteFlagProcessWide ==
    /\ [](muted <=> lastToggle.type = "mute")
    /\ [](lastOp.type = "get-mute-state" =>
             \A t \in Sessions :
                 sent[t] = IF t = lastOp.sess
                           THEN << [Msg("mute-state") EXCEPT
                                      !.muted = (lastToggle.type = "mute")] >>
                           ELSE <<>>)
    /\ [][lastOp'.type = "get-mute-state" => muted' = muted]_vars

\* a session asks for the flag after another session has set it
C16_Witness ==
    /\ lastOp.type = "get-mute-state"
    /\ lastToggle.type = "mute"
    /\ lastToggle.sess # lastOp.sess
    /\ conn[lastToggle.sess] = "open"
    /\ Len(sent[lastOp.sess]) = 1
    /\ sent[lastOp.sess][1].muted

\* C17: a ping received on an open session is answered, within its
\* handling, with exactly one pong sent to that session and nothing sent to
\* any other session.
C17_PingAnsweredAtOnce ==
    lastOp.type = "ping" =>
        \A t \in Sessions :
            IF t = lastOp.sess
            THEN Len(sent[t]) = 1 /\ sent[t][1].type = "pong"
            ELSE sent[t] = <<>>

\* a ping was answered while another session is open
C17_Witness ==
    \E t \in Sessions :
        /\ lastOp.type = "ping"
        /\ t # lastOp.sess
        /\ conn[t] = "open"
        /\ Len(sent[lastOp.sess]) = 1
        /\ sent[lastOp.sess][1].type = "pong"

(***************************************************************************)
(* Properties of the synthesized snapshots                                 *)
(***************************************************************************)

\* C18: for every node of every snapshot, in any spike state, gpuLoad and
\* cooling are in [0, 100], temperature and powerUsage are not negative, and
\* an offline node reports 0 for all four.
C18_NodeMetricsInRange ==
    \A k \in 1..Len(snapshot) :
        \A i \in 1..Len(snapshot[k].nodes) :
            LET node == snapshot[k].nodes[i] IN
            /\ node.gpuLoad \in 0..100
            /\ node.cooling \in 0..100
            /\ node.temperature >= 0
            /\ node.powerUsage >= 0
            /\ node.status = "offline" =>
                   /\ node.gpuLoad = 0
                   /\ node.cooling = 0
                   /\ node.temperature = 0
                   /\ node.powerUsage = 0

\* a snapshot taken during a spike in which one node is offline and an
\* online node is at full load and full cooling
C18_Witness ==
    /\ snapshot # NoSnapshot
    /\ currentState.status = "spike"
    /\ \E k \in 1..Len(snapshot) :
           \E i, j \in 1..Len(snapshot[k].nodes) :
               /\ snapshot[k].nodes[i].status = "offline"
               /\ snapshot[k].nodes[j].status = "online"
               /\ snapshot[k].nodes[j].gpuLoad = 100
               /\ snapshot[k].nodes[j].cooling = 100

\* C19: for every cluster of every snapshot, activeNodes <= 8, and the
\* cluster status is offline if and only if activeNodes = 0.
C19_ClusterOfflineIffNoActive ==
    \A k \in 1..Len(snapshot) :
        /\ snapshot[k].activeNodes <= 8
        /\ snapshot[k].status = "offline" <=> snapshot[k].activeNodes = 0

\* a snapshot with an offline cluster next to a cluster that is online with
\* fewer than eight active nodes
C19_Witness ==
    /\ snapshot # NoSnapshot
    /\ \E k, l \in 1..Len(snapshot) :
           /\ snapshot[k].status = "offline"
           /\ snapshot[k].activeNodes = 0
           /\ snapshot[l].status = "online"
           /\ snapshot[l].activeNodes \in 1..8

\* every node of every cluster of the snapshot is offline
FleetOffline(clusters) ==
    \A k \in 1..Len(clusters) : AllOffline(clusters[k].nodes)

\* C20: for a snapshot in which every node is offline calculateStats returns
\* powerDrawMW = 0, coolingPUE = 1.0 and co2OffsetKg = 0; coolingPUE is 1.0
\* whenever the total IT power is 0, and it is never NaN or Infinity.
C20_AllOfflineStats ==
    snapshot # NoSnapshot =>
        LET stats == calculateStats(snapshot) IN
        /\ FleetOffline(snapshot) =>
               /\ stats.powerDrawMW = 0
               /\ stats.coolingPUE = Finite(1000)
               /\ stats.co2OffsetKg = 0
        /\ stats.powerDrawMW = 0 => stats.coolingPUE = Finite(1000)
        /\ stats.coolingPUE.kind = "finite"

\* a snapshot taken during a spike in which every node is offline
C20_Witness ==
    /\ snapshot # NoSnapshot
    /\ FleetOffline(snapshot)
    /\ currentState.status = "spike"

FleetLoad(clusters) ==
    SumSeq([k \in 1..Len(clusters) |->
               SumSeq([i \in 1..Len(clusters[k].nodes) |->
                          clusters[k].nodes[i].gpuLoad])])

\* the snapshot was made right after a manual trigger, from fixed draws
MadeInManualSpike ==
    /\ lastOp.type = "generateTelemetry"
    /\ snapshot # NoSnapshot
    /\ seed # NoSeed
    /\ currentState = simulateLoadSpike(InitialState)

\* C22 as stated: for every fixed sequence of draws, generateTelemetry run
\* after a manual global spike yields a strictly higher mean node gpuLoad
\* than generateTelemetry run with the same draws in status normal.
C22_SpikeRaisesMeanLoad ==
    MadeInManualSpike =>
        FleetLoad(snapshot) > FleetLoad(generateSnapshot(InitialState, seed))

\* C22 amended: the mean is never lower, and it is strictly higher whenever
\* the draws leave at least one node of the fleet online.
C22_SpikeRaisesMeanLoadIfOnline ==
    MadeInManualSpike =>
        LET base == generateSnapshot(InitialState, seed) IN
        /\ FleetLoad(snapshot) >= FleetLoad(base)
        /\ ~FleetOffline(snapshot) => FleetLoad(snapshot) > FleetLoad(base)

\* a snapshot made in a manual spike from draws that leave only one node of
\* the fleet online
C22_Witness ==
    /\ MadeInManualSpike
    /\ SumSeq([k \in 1..Len(snapshot) |-> snapshot[k].activeNodes]) = 1

\* the largest power a node can report: load 100 and cooling 100 (6.8 kW),
\* and the power of a fleet of such nodes (0.4352 MW)
MaxNodePower == powerUsageOf(100, 100, TRUE)
MaxFleetPower == ClusterCount * NodesPerCluster * MaxNodePower

\* C23 as stated: there is a reachable spike state and a snapshot produced
\* by generateTelemetry for which calculateStats returns energySavings < 0.
C23_SavingsCanGoNegative ==
    \E cs \in SpikeStates, rnd \in SourcesNow :
        calculateStats(generateSnapshot(cs, rnd)).energySavings < 0

\* C23 amended: energySavings is not clamped by calculateStats, but for
\* every snapshot of every spike state the fleet draws at most 0.4352 MW,
\* which is below the 2.77 MW baseline, so that energySavings lies between
\* 84.2 and 100 and is never negative.
C23_SavingsNeverNegative ==
    snapshot # NoSnapshot =>
        LET st == calculateStats(snapshot) IN
        /\ st.powerDrawMW <= MaxFleetPower
        /\ MaxFleetPower < BaselinePower
        /\ st.energySavings >= 842
        /\ st.energySavings <= 1000

\* a snapshot taken during a spike with every node online and a cluster
\* whose eight nodes all draw the largest power
C23_Witness ==
    /\ snapshot # NoSnapshot
    /\ currentState.status = "spike"
    /\ \A k \in 1..Len(snapshot) : snapshot[k].activeNodes = NodesPerCluster
    /\ \E k \in 1..Len(snapshot) :
           snapshot[k].powerUsage = NodesPerCluster * MaxNodePower

\* the pair looked at differs in load only / in cooling only
LoadPair ==
    /\ probe # NoProbe
    /\ probe[1].gpuLoad < probe[2].gpuLoad
    /\ probe[1].cooling = probe[2].cooling

CoolingPair ==
    /\ probe # NoProbe
    /\ probe[1].cooling < probe[2].cooling
    /\ probe[1].gpuLoad = probe[2].gpuLoad

\* C24 as stated: the power reported for an online node is never negative
\* and strictly increasing in both inputs: for loads l1 < l2 at equal
\* cooling, and for coolings c1 < c2 at equal load, the reported powerUsage
\* is strictly larger for the larger input.
C24_PowerStrictlyIncreasing ==
    /\ probe # NoProbe => probe[1].powerUsage >= 0 /\ probe[2].powerUsage >= 0
    /\ LoadPair => probe[1].powerUsage < probe[2].powerUsage
    /\ CoolingPair => probe[1].powerUsage < probe[2].powerUsage

\* C24 amended: the reported power is never negative, strictly increasing in
\* the load, and non-decreasing in the cooling: for c1 < c2 at equal load it
\* is never smaller for c2, and strictly larger when c2 >= c1 + 2.
C24_PowerIncreasingInLoad ==
    /\ probe # NoProbe => probe[1].powerUsage >= 0 /\ probe[2].powerUsage >= 0
    /\ LoadPair => probe[1].powerUsage < probe[2].powerUsage
    /\ CoolingPair =>
           /\ probe[1].powerUsage <= probe[2].powerUsage
           /\ probe[2].cooling >= probe[1].cooling + 2 =>
                  probe[1].powerUsage < probe[2].powerUsage

\* two nodes at equal load whose coolings differ by one report the same
\* power, 1.52 kW
C24_Witness ==
    /\ CoolingPair
    /\ probe[2].cooling = probe[1].cooling + 1
    /\ probe[1].powerUsage = 152
    /\ probe[2].powerUsage = 152

ClusterStatuses == {"active", "idle", "optimizing"}
NodeStates == {"active", "hot", "idle"}
DatasetLabels == << "GPU Utilization %", "Cooling Power %", "Energy Savings %" >>

\* C25: in every telemetry payload each cluster's status is one of active /
\* idle / optimizing, each node's state is one of active / hot / idle, an
\* offline cluster or node is reported idle, and chart.datasets has exactly
\* three entries in the order GPU Utilization, Cooling Power, Energy
\* Savings, each with as many data points as chart.labels.
C25_PayloadLiterals ==
    \A s \in Sessions : \A m \in TelemetrySent(s) :
        /\ Len(m.clusters) = Len(snapshot)
        /\ \A k \in 1..Len(m.clusters) :
               /\ m.clusters[k].status \in ClusterStatuses
               /\ snapshot[k].status = "offline" =>
                      m.clusters[k].status = "idle"
        /\ \A j \in 1..Len(m.nodes) :
               /\ m.nodes[j].state \in NodeStates
               /\ m.nodes[j].status = "offline" => m.nodes[j].state = "idle"
        /\ Len(m.chart.datasets) = 3
        /\ \A i \in 1..3 :
               /\ m.chart.datasets[i].label = DatasetLabels[i]
               /\ Len(m.chart.datasets[i].data) = Len(m.chart.labels)

\* a payload sent once the chart is full, with an offline cluster and, in
\* another cluster, an offline node next to a hot one
C25_Witness ==
    \E s \in Sessions : \E m \in TelemetrySent(s) :
        /\ Len(m.chart.labels) >= ChartCapacity
        /\ \E k \in 1..Len(snapshot) : snapshot[k].status = "offline"
        /\ \E i, j \in 1..Len(m.nodes) :
               /\ m.nodes[i].clusterName = m.nodes[j].clusterName
               /\ m.nodes[i].status = "offline"
               /\ m.nodes[j].state = "hot"

\* the step takes the state machine from spike to normal
SpikeEnds == currentState.status = "spike" /\ currentState'.status = "normal"

\* the tick that has just run began a spike from the countdown
SpikeBeganByCountdown ==
    /\ lastOp.type = "tick"
    /\ currentState.status = "spike"
    /\ hist.clean
    /\ hist.m = 0

\* C26: on every spike -> normal transition, of an automatic or a manual
\* spike, region is reset to "global" and the countdown is reseeded into
\* [120, 300]; with no manual trigger the next spike begins on a tick
\* numbered between 120 and 300 from the seeding, all ticks before it
\* having left the status normal.
C26_ReseedOnSpikeEnd ==
    /\ [][SpikeEnds =>
            /\ currentState'.region = "global"
            /\ nextSpikeIn' >= CountdownMin * Resolution
            /\ nextSpikeIn' <= (CountdownMin + CountdownRange) * Resolution
            /\ hist'.n = 0]_vars
    /\ [](SpikeBeganByCountdown =>
            /\ hist.n >= CountdownMin
            /\ hist.n <= CountdownMin + CountdownRange)
    /\ []((currentState.status = "normal" /\ hist.clean) =>
            hist.n < CountdownMin + CountdownRange)

\* a manual spike has just ended: region is global and the countdown was
\* reseeded with the largest draw
C26_Witness ==
    /\ lastOp.type = "tick"
    /\ hist.ended
    /\ hist.d0 = ManualDuration
    /\ hist.m = ManualDuration
    /\ currentState.region = "global"
    /\ nextSpikeIn = (CountdownMin + CountdownRange) * Resolution - 1

\* C27: a spike started by the manual trigger lasts 10 seconds: with a tick
\* every 2 seconds and no further trigger, once 10 seconds' worth of ticks
\* have run since the trigger the status is normal again.
C27_ManualSpikeLastsTenSeconds ==
    (hist.d0 = ManualDuration /\ hist.m * TickSeconds >= ManualSeconds) =>
        currentState.status = "normal"

(***************************************************************************)
(* Properties of the client hook                                           *)
(***************************************************************************)

\* min(1000 * 2^n, 30000)
ExpectedDelay(n) ==
    IF BackoffBase * 2^n < BackoffCap THEN BackoffBase * 2^n ELSE BackoffCap

\* the step delivers to a running effect the close / the open of socket k
LiveClose(k) ==
    /\ lastOp'.type = "socketClose" /\ lastOp'.sess = k
    /\ sockets[k].effect \notin cleaned

LiveOpen(k) ==
    /\ lastOp'.type = "open" /\ lastOp'.sess = k
    /\ sockets[k].effect \notin cleaned

\* C28: the hook reconnects with exponential backoff: the n-th consecutive
\* close (n counted from 0) handled without an open in between schedules
\* exactly one reconnect, after min(1000 * 2^n, 30000) ms; at most one
\* reconnect is scheduled at a time and none later than 30000 ms; an open
\* resets n to 0.
C28_ExponentialBackoff ==
    /\ [][\A k \in SocketIds :
            LiveClose(k) =>
                \E t \in timeouts' :
                    /\ t \notin timeouts
                    /\ timeouts' = timeouts \cup {t}
                    /\ t.delay = ExpectedDelay(closesSinceOpen)]_vars
    /\ [][\A k \in SocketIds :
            LiveOpen(k) => reconnectAttempts' = 0 /\ closesSinceOpen' = 0]_vars
    /\ [](/\ Cardinality(timeouts) <= 1
          /\ \A t \in timeouts : t.delay <= BackoffCap
          /\ reconnectAttempts = closesSinceOpen)

\* the sixth close in a row since a socket was open has been handled: the
\* reconnect is scheduled after 30000 ms
C28_Witness ==
    /\ lastOp.type = "socketClose"
    /\ closesSinceOpen = 6
    /\ Cardinality({k \in SocketIds : sockets[k].state = "closed"}) = 7
    /\ \E t \in timeouts : t.delay = BackoffCap /\ t.id = lastOp.sess

\* the reply a request of the given kind is answered with on success
ReplyTypeOf(kind) == IF kind = "ask_ai" THEN "ai_response" ELSE "ai_answer"

\* the messages of the last step that answer a request
AnswersSent(s) ==
    { sent[s][i] : i \in { j \in 1..Len(sent[s]) :
          sent[s][j].type \in {"ai_response", "ai_answer", "ai_error"} } }

\* C29: every ask_ai (ask_question) request on a session that stays open is
\* answered on that session exactly once: the step in which its last call
\* settles sends one ai_response (ai_answer) or one ai_error for it and
\* nothing else, no other step sends an answer for it, and a request that
\* has been answered is never pending again.
C29_ExactlyOneReply ==
    /\ [][\A r \in pending :
            (/\ lastOp'.type \in {"gatewayDone", "ttsDone"}
             /\ lastOp'.req = r.id
             /\ conn[r.sess] = "open") =>
                IF \E q \in pending' : q.id = r.id
                THEN sent' = NoneSent
                ELSE /\ Len(sent'[r.sess]) = 1
                     /\ sent'[r.sess][1].req = r.id
                     /\ sent'[r.sess][1].type \in
                            {ReplyTypeOf(r.kind), "ai_error"}
                     /\ \A t \in Sessions \ {r.sess} : sent'[t] = <<>>]_vars
    /\ [][\A s \in Sessions : \A m \in AnswersSent(s)' :
            \E r \in pending :
                /\ r.id = m.req /\ r.sess = s
                /\ \A q \in pending' : q.id # r.id]_vars
    /\ [][\A q \in pending' :
            \/ \E r \in pending : r.id = q.id
            \/ q.id > nextReq]_vars
    /\ [](\A r \in pending : r.id <= nextReq)

\* an ask_question without audio was answered with an ai_answer as soon as
\* the gateway call settled
C29_Witness ==
    /\ lastOp.type = "gatewayDone"
    /\ conn[lastOp.sess] = "open"
    /\ pending = {}
    /\ Len(sent[lastOp.sess]) = 1
    /\ sent[lastOp.sess][1].type = "ai_answer"
    /\ sent[lastOp.sess][1].req = lastOp.req

(***************************************************************************)
(* Termination of a spike                                                  *)
(***************************************************************************)
MaxSpikeDuration == 30

\* C30: the spike state is transient: with the tick driver fair and no
\* manual trigger after a spike has started, every state with status spike
\* is followed by a state with status normal, and that state comes within
\* the duration the spike started with, which is at most 30 ticks: while
\* the status is spike fewer ticks than that have run and duration holds
\* the number of ticks left.
C30_SpikeIsTransient ==
    /\ (currentState.status = "spike") ~> (currentState.status = "normal")
    /\ [](currentState.status = "spike" =>
            /\ hist.d0 <= MaxSpikeDuration
            /\ hist.m < hist.d0
            /\ currentState.duration = hist.d0 - hist.m)
    /\ [](hist.ended => hist.m = hist.d0)

\* the longest spike of the table has ended on its 30th tick
C30_Witness ==
    /\ lastOp.type = "tick"
    /\ currentState.status = "normal"
    /\ hist.ended
    /\ hist.d0 = MaxSpikeDuration
    /\ hist.m = MaxSpikeDuration

(***************************************************************************)
(* Properties of the spike flag and of the chart values                    *)
(***************************************************************************)
\* the clusters whose site name or profile location contains the region:
\* A is Houston / "Houston, USA", B is Calgary / "Calgary, Canada",
\* C is Stavanger / "Stavanger, Norway"; no name contains "london"
RegionMatches(idx, region) ==
    \/ region = "global"
    \/ region = "houston" /\ idx = 1
    \/ region = "calgary" /\ idx = 2
    \/ region = "norway" /\ idx = 3

\* the loads of the nodes of a cluster
NodeLoads(cluster) ==
    [i \in 1..Len(cluster.nodes) |-> cluster.nodes[i].gpuLoad]

\* C31: a synthesized cluster has spikeActive exactly when the status is
\* spike and the spike region is "global" or is contained in the cluster's
\* site name or profile location; no cluster has spikeActive in status
\* normal; a cluster that does not match a regional spike has the loads the
\* same draws give without the multiplier.
C31_SpikeActiveIffMatching ==
    snapshot # NoSnapshot =>
        \A idx \in 1..Len(snapshot) :
            /\ snapshot[idx].spikeActive <=>
                   /\ currentState.status = "spike"
                   /\ RegionMatches(idx, currentState.region)
            /\ currentState.status = "normal" => ~snapshot[idx].spikeActive
            /\ ~RegionMatches(idx, currentState.region) =>
                   NodeLoads(snapshot[idx]) =
                       NodeLoads(generateCluster(idx, InitialState, seed))

\* a snapshot made in a Houston spike: cluster A is flagged and has a node
\* at full load, cluster B is not flagged
C31_Witness ==
    /\ snapshot # NoSnapshot
    /\ currentState.status = "spike"
    /\ currentState.region = "houston"
    /\ snapshot[1].spikeActive
    /\ ~snapshot[2].spikeActive
    /\ \E i \in 1..NodesPerCluster : snapshot[1].nodes[i].gpuLoad = 100

\* the nodes of a snapshot, as pairs of cluster index and node index
NodesOf(clusters) ==
    {<<k, i>> \in (1..Len(clusters)) \X (1..NodesPerCluster) :
        i <= Len(clusters[k].nodes)}

\* the largest over-cooling: traditionalOverCooling of 25
MaxOverCooling == 25

\* C33: in every synthesized snapshot every node has cooling >= gpuLoad: an
\* online node's cooling lies between its load and its load + 25, cut at
\* 100, an offline node has both 0; hence every cluster's average cooling
\* is at least its average load, and so is the fleet's.
C33_CoolingAtLeastLoad ==
    snapshot # NoSnapshot =>
        /\ \A p \in NodesOf(snapshot) :
               LET node == snapshot[p[1]].nodes[p[2]] IN
               /\ node.cooling >= node.gpuLoad
               /\ node.status = "online" =>
                      node.cooling <= Min(100, node.gpuLoad + MaxOverCooling)
               /\ node.status = "offline" =>
                      node.cooling = 0 /\ node.gpuLoad = 0
        /\ \A k \in 1..Len(snapshot) :
               snapshot[k].cooling >= snapshot[k].gpuLoad
        /\ FleetTotals(snapshot).totalCooling >=
               FleetTotals(snapshot).totalGpu

\* one online node is cooled exactly as much as it is loaded, another one
\* gets the full over-cooling of 25, a third one is offline
C33_Witness ==
    /\ snapshot # NoSnapshot
    /\ \E p \in NodesOf(snapshot) :
           LET a == snapshot[p[1]].nodes[p[2]] IN
           a.status = "online" /\ a.gpuLoad > 0 /\ a.cooling = a.gpuLoad
    /\ \E q \in NodesOf(snapshot) :
           LET b == snapshot[q[1]].nodes[q[2]] IN
           b.status = "online" /\ b.cooling = b.gpuLoad + MaxOverCooling
    /\ \E r \in NodesOf(snapshot) :
           snapshot[r[1]].nodes[r[2]].status = "offline"

\* the value updateChartData has just appended to the Energy Savings series
LastEnergy == chartHistory.energyData[Len(chartHistory.energyData)]

\* C32: every value updateChartData appends to the Energy Savings series,
\* for a snapshot synthesized in any spike state, lies in [32, 47], and is
\* 32 when the fleet's average cooling is 0.
C32_EnergySeriesInRange ==
    /\ \A i \in 1..Len(chartHistory.energyData) :
           /\ chartHistory.energyData[i] >= 320
           /\ chartHistory.energyData[i] <= 470
    /\ (/\ lastOp.type = "updateChartData"
        /\ FleetTotals(snapshot).totalCooling = 0) => LastEnergy = 320

\* a snapshot made in a Norway spike has been charted with a value above 32
C32_Witness ==
    /\ lastOp.type = "updateChartData"
    /\ currentState.status = "spike"
    /\ currentState.region = "norway"
    /\ FleetTotals(snapshot).totalCooling > 0
    /\ LastEnergy >= 330

(***************************************************************************)
(* Properties of the chart history under concurrent pushes                 *)
(***************************************************************************)
\* C34: whatever the interleaving of the push timers of the open sessions,
\* the four series of the chart history have the same length in every
\* state, the payload returned by a push has three datasets as long as its
\* labels, and a payload returned by an earlier push reads the same after a
\* later push has appended to the history or evicted from it.
C34_ChartSeriesConsistent ==
    /\ [](/\ Len(chartHistory.gpuData) = Len(chartHistory.labels)
          /\ Len(chartHistory.coolingData) = Len(chartHistory.labels)
          /\ Len(chartHistory.energyData) = Len(chartHistory.labels))
    /\ [](handed # NoChart =>
            /\ handed.labels = chartHistory.labels
            /\ \A d \in 1..Len(handed.datasets) :
                   Len(handed.datasets[d].data) = Len(handed.labels))
    /\ [][(lastOp'.type = "push" /\ handed # NoChart) =>
              handedSeen' = handed]_vars

\* the push of the second session evicted the oldest entry after an earlier
\* push had returned a payload of full length, which still reads as it did
C34_Witness ==
    /\ lastOp.type = "push"
    /\ lastOp.sess = 2
    /\ conn[1] = "open" /\ conn[2] = "open"
    /\ Len(handedSeen.labels) = ChartCapacity + 1
    /\ Len(handed.labels) = ChartCapacity + 1
    /\ handedSeen.datasets[1].data # handed.datasets[1].data

\* the steps of the message handler: the eight kinds of inbound message
\* and the continuations of the two ask kinds
MessageOps ==
    {"ping", "mute", "unmute", "get-mute-state", "ask_ai", "ask_question",
     "malformed", "unknown", "gatewayDone", "ttsDone"}

\* series t is series r, less its oldest entry when r was longer than the
\* capacity, with one entry appended
OneAppended(r, t) ==
    LET kept == IF Len(r) > ChartCapacity THEN Tail(r) ELSE r IN
    /\ Len(t) = Len(kept) + 1
    /\ SubSeq(t, 1, Len(kept)) = kept

\* C35: handling an inbound message of any kind (ping, mute, unmute,
\* get-mute-state, ask_ai, ask_question, malformed, unknown) leaves the
\* chart history unchanged; only a push changes it, and a push appends
\* exactly one entry to each series.
C35_OnlyPushAppends ==
    /\ [][lastOp'.type \in MessageOps =>
              chartHistory' = chartHistory]_vars
    /\ [][chartHistory' # chartHistory => lastOp'.type = "push"]_vars
    /\ [][lastOp'.type = "push" =>
              /\ OneAppended(chartHistory.labels, chartHistory'.labels)
              /\ OneAppended(chartHistory.gpuData, chartHistory'.gpuData)
              /\ OneAppended(chartHistory.coolingData,
                             chartHistory'.coolingData)
              /\ OneAppended(chartHistory.energyData,
                             chartHistory'.energyData)]_vars

\* a ping was handled while a request was waiting for the gateway, after a
\* push in service; the chart history is the one that push left
C35_Witness ==
    /\ lastOp.type = "ping"
    /\ pending # {}
    /\ handed = ChartPayload(chartHistory)
    /\ chartHistory # ChartAfter(ChartCapacity + 1)

(***************************************************************************)
(* Properties of the client hook after cleanup                             *)
(***************************************************************************)
\* the sockets a step creates, the timeouts a step schedules
NewSockets == {k \in SocketIds : sockets[k].state = "none"
                                  /\ sockets'[k].state # "none"}

NewTimeouts == timeouts' \ timeouts

\* C36: once an effect of the hook has been cleaned up (unmount or URL
\* change) no WebSocket is created and no reconnect is scheduled on its
\* behalf, and no reconnect of it stays scheduled, whenever the cleanup
\* comes: while connecting, while connected, while a reconnect timeout is
\* pending, or before a late open, close or message event of its socket.
\* Until the effect runs again nothing is created or scheduled at all.
C36_NothingAfterCleanup ==
    /\ [](\A t \in timeouts : t.effect \notin cleaned)
    /\ [][\A k \in NewSockets : sockets'[k].effect \notin cleaned']_vars
    /\ [][\A t \in NewTimeouts : t.effect \notin cleaned']_vars
    /\ [][(effect \in cleaned /\ effect' = effect) =>
              NewSockets = {} /\ NewTimeouts = {}]_vars
    /\ [](effect \in cleaned => wsRef = 0 /\ reconnectTimeoutRef = 0)

\* the late close event of a socket has been delivered after the cleanup of
\* its effect, which had reconnected before: nothing is scheduled
C36_Witness ==
    /\ lastOp.type = "socketClose"
    /\ sockets[lastOp.sess].effect \in cleaned
    /\ sockets[lastOp.sess].effect = effect
    /\ reconnectAttempts > 0
    /\ timeouts = {}
    /\ wsRef = 0

====
